---- MODULE Spec2Model ----
(***************************************************************************)
(* Intent + slot classification engine of the product chat API.            *)
(*                                                                         *)
(* Text model.  A request text is a sequence of tokens; the string it      *)
(* stands for is the tokens joined by single blanks, except that a comma   *)
(* token is attached to the token before it ("lamp, with").  A token is a  *)
(* record                                                                  *)
(*    w    the word in lower case, "" for numbers                          *)
(*    c    how the word is cased: "l" lower, "t" Title, "u" UPPER          *)
(*    g    (comma only) TRUE when glued to the token before it             *)
(*    d    the digits of the integer part, <<>> for words                  *)
(*    f    the digits after the decimal point, <<>> when there is none     *)
(*    cur  TRUE when the number is written with a leading "$"              *)
(* Regular expressions are evaluated token by token: \s+ is the blank      *)
(* between two tokens and \b holds at every token border.                  *)
(*                                                                         *)
(* Floats.  A confidence c is the integer c * 100000; the last digit       *)
(* carries the IEEE-754 rounding of a sum (0.9 + 0.05 evaluates to         *)
(* 0.9500000000000001, which is 95001 here and is larger than 0.95).       *)
(***************************************************************************)
EXTENDS Integers, Sequences, FiniteSets, TLC

MaxLen == 3

W(s) == [w |-> s, c |-> "l", g |-> FALSE, d |-> <<>>, f |-> <<>>, cur |-> FALSE]
Title(s) == [W(s) EXCEPT !.c = "t"]
Upper(s) == [W(s) EXCEPT !.c = "u"]
Comma == [W(",") EXCEPT !.g = TRUE]
N(ds) == [w |-> "", c |-> "l", g |-> FALSE, d |-> ds, f |-> <<>>, cur |-> FALSE]
Money(ds, fs) == [w |-> "", c |-> "l", g |-> FALSE, d |-> ds, f |-> fs, cur |-> TRUE]
Words(ss) == [i \in 1..Len(ss) |-> W(ss[i])]

IsWord(tok) == tok.d = <<>>
IsComma(tok) == tok.d = <<>> /\ tok.w = ","

\* str.lower() and str.title() on a text
lower(text) == [i \in 1..Len(text) |-> [text[i] EXCEPT !.c = "l"]]
title(text) == [i \in 1..Len(text) |-> [text[i] EXCEPT !.c = IF IsWord(text[i]) THEN "t" ELSE "l"]]

\* number of characters of a token and of the text before token i
TokLen(tok) ==
    IF IsWord(tok) THEN Len(tok.w)
    ELSE (IF tok.cur THEN 1 ELSE 0) + Len(tok.d)
         + (IF tok.f = <<>> THEN 0 ELSE 1 + Len(tok.f))

RECURSIVE CharStart(_, _)
CharStart(text, i) ==
    IF i <= 1 THEN 0
    ELSE CharStart(text, i - 1) + TokLen(text[i - 1])
         + (IF text[i].g THEN 0 ELSE 1)

CharEnd(text, i) == CharStart(text, i) + TokLen(text[i])

RECURSIVE DigitsToInt(_)
DigitsToInt(ds) ==
    IF ds = <<>> THEN 0
    ELSE 10 * DigitsToInt(SubSeq(ds, 1, Len(ds) - 1)) + ds[Len(ds)]

(***************************************************************************)
(* Values of slots and arguments: one record shape for every Python type.  *)
(***************************************************************************)
IntVal(n) == [ty |-> "int", n |-> n, s |-> <<>>]
FloatVal(cents) == [ty |-> "float", n |-> cents, s |-> <<>>]
BoolVal(b) == [ty |-> "bool", n |-> IF b THEN 1 ELSE 0, s |-> <<>>]
StrVal(toks) == [ty |-> "str", n |-> 0, s |-> toks]
NoneVal == [ty |-> "None", n |-> 0, s |-> <<>>]

EmptyArgs == [k \in {} |-> NoneVal]
Put(args, key, val) ==
    [k \in (DOMAIN args) \cup {key} |-> IF k = key THEN val ELSE args[k]]

(***************************************************************************)
(* Token-level regular expressions.  An item matches one token; an         *)
(* optional item may be skipped (tried present first, as re does); cap     *)
(* marks the token of capture group 1.                                     *)
(***************************************************************************)
Lit(S) == [kind |-> "word", ws |-> S, opt |-> FALSE, cap |-> FALSE]
Opt(S) == [kind |-> "word", ws |-> S, opt |-> TRUE, cap |-> FALSE]
LitUpper(S) == [kind |-> "WORD", ws |-> S, opt |-> FALSE, cap |-> FALSE]
CapLetter == [kind |-> "letter", ws |-> {}, opt |-> FALSE, cap |-> TRUE]
Digits == [kind |-> "digits", ws |-> {}, opt |-> FALSE, cap |-> FALSE]
CapDigits == [kind |-> "digits", ws |-> {}, opt |-> FALSE, cap |-> TRUE]
CapPrice == [kind |-> "price", ws |-> {}, opt |-> FALSE, cap |-> TRUE]
CapMoney == [kind |-> "money", ws |-> {}, opt |-> FALSE, cap |-> TRUE]

\* "word": a word of the expression, in lower case as the expression has
\* it; "WORD": the same in upper case; "letter": \s+[A-Za-z], a word's first
\* letter; "digits": \s+\d+ (the token starts with a digit);
\* "price": \s*\$?\d+; "money": \$\d+
ItemFits(it, tok) ==
    CASE it.kind = "word" -> tok.d = <<>> /\ tok.c = "l" /\ tok.w \in it.ws
      [] it.kind = "WORD" -> tok.d = <<>> /\ tok.c = "u" /\ tok.w \in it.ws
      [] it.kind = "letter" -> tok.d = <<>> /\ tok.w \notin {",", "$"}
      [] it.kind = "digits" -> tok.d # <<>> /\ ~tok.cur
      [] it.kind = "price" -> tok.d # <<>>
      [] it.kind = "money" -> tok.d # <<>> /\ tok.cur

NoMatch == [ok |-> FALSE, cap |-> 0, end |-> 0]

\* the first attempt if it matches, the next one otherwise
FirstOk(m, other) == IF m.ok THEN m ELSE other

\* items k.. matched at token i: item k takes token i, or is skipped
RECURSIVE MatchFrom(_, _, _, _, _)
MatchFrom(items, k, t, i, cap) ==
    IF k > Len(items) THEN [ok |-> TRUE, cap |-> cap, end |-> i]
    ELSE FirstOk(IF i <= Len(t) /\ ItemFits(items[k], t[i])
                 THEN MatchFrom(items, k + 1, t, i + 1, IF items[k].cap THEN i ELSE cap)
                 ELSE NoMatch,
                 IF items[k].opt THEN MatchFrom(items, k + 1, t, i, cap) ELSE NoMatch)

\* the alternatives of one expression tried in order at position i
RECURSIVE MatchAlts(_, _, _, _)
MatchAlts(alts, a, t, i) ==
    IF a > Len(alts) THEN NoMatch
    ELSE FirstOk(MatchFrom(alts[a], 1, t, i, 0), MatchAlts(alts, a + 1, t, i))

\* re.search: the match at the leftmost position that has one
RECURSIVE SearchFrom(_, _, _)
SearchFrom(alts, t, i) ==
    IF i > Len(t) THEN NoMatch
    ELSE FirstOk(MatchAlts(alts, 1, t, i), SearchFrom(alts, t, i + 1))

re_search(alts, t) == SearchFrom(alts, t, 1)

(***************************************************************************)
(* patterns.py                                                             *)
(***************************************************************************)
UpdateVerbs == {"update", "modify", "change", "edit"}
DeleteVerbs == {"delete", "remove", "drop"}
GetVerbs == {"get", "find", "retrieve", "show", "display", "view"}
Products == {"product", "products"}

\* each rule: the expression, its base confidence and len(pattern)
INTENT_PATTERNS == <<
    [intent |-> "product.create", base |-> 90000, plen |-> 37,
     alts |-> << <<Lit({"add", "create", "insert"})>>,
                 <<Lit({"new"}), Lit({"product"})>> >>],
    [intent |-> "product.create", base |-> 95000, plen |-> 48,
     alts |-> << <<Lit({"add", "create"}), Opt({"a"}), Opt({"new"}), Lit({"product"})>> >>],
    [intent |-> "product.update", base |-> 90000, plen |-> 33,
     alts |-> << <<Lit(UpdateVerbs)>> >>],
    [intent |-> "product.update", base |-> 95000, plen |-> 64,
     alts |-> << <<Lit(UpdateVerbs), Opt({"product"}), Opt({"id"}), Digits>> >>],
    [intent |-> "product.delete", base |-> 90000, plen |-> 26,
     alts |-> << <<Lit(DeleteVerbs)>> >>],
    [intent |-> "product.delete", base |-> 95000, plen |-> 57,
     alts |-> << <<Lit(DeleteVerbs), Opt({"product"}), Opt({"id"}), Digits>> >>],
    [intent |-> "product.get", base |-> 80000, plen |-> 43,
     alts |-> << <<Lit(GetVerbs)>> >>],
    [intent |-> "product.get", base |-> 90000, plen |-> 74,
     alts |-> << <<Lit(GetVerbs), Opt({"product"}), Opt({"id"}), Digits>> >>],
    [intent |-> "product.list", base |-> 95000, plen |-> 57,
     alts |-> << <<Lit({"list", "show", "display", "view", "get"}), Opt({"all"}),
                   Lit(Products)>> >>],
    [intent |-> "product.list", base |-> 90000, plen |-> 48,
     alts |-> << <<Opt({"what"}), Lit(Products), Lit({"do"}), Lit({"you"}), Lit({"have"})>>,
                 <<Opt({"what"}), Lit(Products), Lit({"have"})>> >>],
    [intent |-> "product.list", base |-> 85000, plen |-> 25,
     alts |-> << <<Lit({"catalog", "inventory"})>> >>],
    [intent |-> "product.list", base |-> 95000, plen |-> 52,
     alts |-> << <<Lit({"get", "show"}), Lit({"recent"}), Opt({"created"}), Lit(Products)>> >>],
    [intent |-> "product.list", base |-> 95000, plen |-> 48,
     alts |-> << <<Lit({"show", "get"}), Lit({"latest", "newest"}), Lit(Products)>> >>],
    [intent |-> "product.list", base |-> 90000, plen |-> 40,
     alts |-> << <<Lit({"recent", "latest", "newest"}), Lit(Products)>> >> ] >>

IdVerbs == UpdateVerbs \cup DeleteVerbs \cup {"get", "find", "retrieve"}

\* (?:add|create|new product called?|product called?|named?)
NamePrefix == << <<Lit({"add", "create"})>>,
                 <<Lit({"new"}), Lit({"product"}), Lit({"called", "calle"})>>,
                 <<Lit({"product"}), Lit({"called", "calle"})>>,
                 <<Lit({"name", "named"})>> >>

\* vocabulary words that start with p (a terminator \s+with, \s+price or
\* \s*dollars? matches the start of a word)
StartsWith(p) ==
    CASE p = "with" -> {"with", "without"}
      [] p = "price" -> {"price", "prices", "priced"}
      [] p = "dollar" -> {"dollar", "dollars"}

\* "tok": one captured token after the prefix; "span": ([^,]+?) after the
\* prefix, ended by a comma, by a blank and a stop word, or by the end
SLOT_PATTERNS ==
    [name |-> <<
        [kind |-> "span", conf |-> 90000, alts |-> NamePrefix, stops |-> {"with", "price"}],
        [kind |-> "span", conf |-> 85000, alts |-> << <<Lit({"add", "create"})>> >>,
         stops |-> {"with", "price"}] >>,
     price |-> <<
        [kind |-> "tok", conf |-> 95000, alts |-> << <<Lit({"price"}), CapPrice>> >>,
         stops |-> {}],
        [kind |-> "tok", conf |-> 90000, alts |-> << <<CapMoney>> >>, stops |-> {}],
        [kind |-> "amount", conf |-> 85000,
         alts |-> << <<CapPrice, Lit(StartsWith("dollar"))>> >>, stops |-> {}] >>,
     id |-> <<
        [kind |-> "tok", conf |-> 95000, alts |-> << <<Opt({"product"}), Lit({"id"}), CapDigits>> >>,
         stops |-> {}],
        [kind |-> "tok", conf |-> 90000, alts |-> << <<Lit(IdVerbs), Opt({"product"}), CapDigits>> >>,
         stops |-> {}] >>,
     description |-> <<
        [kind |-> "span", conf |-> 90000, alts |-> << <<Lit({"with"})>> >>, stops |-> {"price"}],
        [kind |-> "span", conf |-> 95000, alts |-> << <<Lit({"description"})>> >>,
         stops |-> {"price"}],
        [kind |-> "span", conf |-> 90000, alts |-> << <<Lit({"feature", "features"})>> >>,
         stops |-> {"price"}] >>]

(***************************************************************************)
(* processors.py                                                           *)
(***************************************************************************)
\* re.sub(r'\s+', ' ', value).strip(), then title(); None for an empty name
process_name(raw) == IF raw = <<>> THEN NoneVal ELSE StrVal(title(raw))

\* float(value), in cents: the capture is \d+(?:\.\d{2})?, which reads two
\* digits after the point or none
process_price(raw) ==
    FloatVal(100 * DigitsToInt(raw[1].d)
             + (IF Len(raw[1].f) >= 2 THEN DigitsToInt(SubSeq(raw[1].f, 1, 2)) ELSE 0))

\* int(value): the capture is \d+
\* variant: the capture kept as the string it is
process_id_str(raw) == StrVal(raw)

process_id(raw) == IntVal(DigitsToInt(raw[1].d))

process_description(raw) == IF raw = <<>> THEN NoneVal ELSE StrVal(raw)

VALUE_PROCESSORS(slot_name, raw) ==
    CASE slot_name = "name" -> process_name(raw)
      [] slot_name = "price" -> process_price(raw)
      [] slot_name = "id" -> process_id(raw)
      [] slot_name = "description" -> process_description(raw)

(***************************************************************************)
(* extractors.py                                                           *)
(***************************************************************************)
StopsAt(tok, stops) ==
    IsComma(tok) \/ (IsWord(tok) /\ \E p \in stops : tok.w \in StartsWith(p))

\* the last token of the lazy span that starts at token e
RECURSIVE SpanEnd(_, _, _)
SpanEnd(t, j, stops) ==
    IF j = Len(t) \/ StopsAt(t[j + 1], stops) THEN j ELSE SpanEnd(t, j + 1, stops)

\* re.search of a "span" rule: leftmost prefix followed by a blank and a
\* token that is no comma
RECURSIVE SpanSearch(_, _, _)
SpanAfter(rule, t, i, m) ==
    IF m.ok /\ m.end <= Len(t) /\ ~IsComma(t[m.end])
    THEN [ok |-> TRUE, from |-> m.end, to |-> SpanEnd(t, m.end, rule.stops),
          frac |-> FALSE]
    ELSE SpanSearch(rule, t, i + 1)

SpanSearch(rule, t, i) ==
    IF i > Len(t) THEN [ok |-> FALSE, from |-> 0, to |-> 0, frac |-> FALSE]
    ELSE SpanAfter(rule, t, i, MatchAlts(rule.alts, 1, t, i))

\* A rule of kind "amount" is (\d+(?:\.\d{2})?)\s*dollars?: the number must
\* end where the blank or the word begins, so with one digit or more than
\* two after the point the leftmost match starts behind the point and group
\* 1 is those digits (frac).
CapturedToken(rule, t, m) ==
    [ok |-> m.ok, from |-> m.cap, to |-> m.cap,
     frac |-> m.ok /\ rule.kind = "amount" /\ Len(t[m.cap].f) \notin {0, 2}]

\* group 1 of a rule's leftmost match, as the tokens it covers
Capture(rule, t) ==
    IF rule.kind = "span"
    THEN SpanSearch(rule, t, 1)
    ELSE CapturedToken(rule, t, re_search(rule.alts, t))

\* match.start(1), match.end(1) in characters
GroupStart(slot_name, t, g) ==
    CharStart(t, g.from) + (IF slot_name = "price" /\ t[g.from].cur THEN 1 ELSE 0)
        + (IF g.frac THEN Len(t[g.from].d) + 1 ELSE 0)
GroupEnd(slot_name, t, g) ==
    CASE slot_name = "id" -> GroupStart(slot_name, t, g) + Len(t[g.from].d)
      [] slot_name = "price" ->
            GroupStart(slot_name, t, g)
            + (IF g.frac THEN Len(t[g.from].f)
               ELSE Len(t[g.from].d) + (IF Len(t[g.from].f) >= 2 THEN 3 ELSE 0))
      [] OTHER -> CharEnd(t, g.to)

\* Optional[Slot] is a sequence of no or one slot; the loop over the
\* patterns of a slot goes on when a pattern does not match (g.ok false)
\* or its processed value is None
RECURSIVE ExtractFrom(_, _, _)
SlotOrNext(slot_name, text_lower, k, base_confidence, g, processed_value) ==
    IF processed_value # NoneVal
    THEN << [name |-> slot_name,
             value |-> processed_value,
             confidence |-> base_confidence,
             start_pos |-> GroupStart(slot_name, text_lower, g),
             end_pos |-> GroupEnd(slot_name, text_lower, g)] >>
    ELSE ExtractFrom(slot_name, text_lower, k + 1)

MatchOrNext(slot_name, text_lower, k, base_confidence, g) ==
    IF g.ok
    THEN SlotOrNext(slot_name, text_lower, k, base_confidence, g,
                    VALUE_PROCESSORS(slot_name,
                                     IF g.frac THEN <<N(text_lower[g.from].f)>>
                                     ELSE SubSeq(text_lower, g.from, g.to)))
    ELSE ExtractFrom(slot_name, text_lower, k + 1)

ExtractFrom(slot_name, text_lower, k) ==
    IF k > Len(SLOT_PATTERNS[slot_name]) THEN <<>>
    ELSE MatchOrNext(slot_name, text_lower, k, SLOT_PATTERNS[slot_name][k].conf,
                     Capture(SLOT_PATTERNS[slot_name][k], text_lower))

\* variant: the rules tried from the last to the first
RECURSIVE LastRuleSlot(_, _, _)
LastRuleSlot(slot_name, text_lower, k) ==
    IF k = 0 THEN <<>>
    ELSE IF MatchOrNext(slot_name, text_lower, Len(SLOT_PATTERNS[slot_name]),
                        SLOT_PATTERNS[slot_name][k].conf,
                        Capture(SLOT_PATTERNS[slot_name][k], text_lower)) # <<>>
    THEN MatchOrNext(slot_name, text_lower, Len(SLOT_PATTERNS[slot_name]),
                     SLOT_PATTERNS[slot_name][k].conf,
                     Capture(SLOT_PATTERNS[slot_name][k], text_lower))
    ELSE LastRuleSlot(slot_name, text_lower, k - 1)

extract_slot_last(slot_name, text, text_lower) ==
    IF slot_name \notin DOMAIN SLOT_PATTERNS THEN <<>>
    ELSE LastRuleSlot(slot_name, text_lower, Len(SLOT_PATTERNS[slot_name]))

extract_slot(slot_name, text, text_lower) ==
    IF slot_name \notin DOMAIN SLOT_PATTERNS THEN <<>>
    ELSE ExtractFrom(slot_name, text_lower, 1)

extract_create_slots(text, text_lower) ==
    extract_slot("name", text, text_lower) \o extract_slot("price", text, text_lower)
        \o extract_slot("description", text, text_lower)

extract_update_slots(text, text_lower) ==
    extract_slot("id", text, text_lower) \o extract_slot("name", text, text_lower)
        \o extract_slot("price", text, text_lower)
        \o extract_slot("description", text, text_lower)

extract_delete_slots(text, text_lower) == extract_slot("id", text, text_lower)

extract_get_slots(text, text_lower) == extract_slot("id", text, text_lower)

\* the blank (or nothing) before the first token after a change of the text
Unglue(t) == IF t = <<>> THEN <<>> ELSE <<[t[1] EXCEPT !.g = FALSE]>> \o Tail(t)

\* tokens i..k cut out of the text, the characters left of them put in
\* their place; with nothing left, what follows has a blank before it
Cut(t, i, k, left) ==
    LET rest == SubSeq(t, k + 1, Len(t))
    IN  SubSeq(t, 1, i - 1) \o left \o (IF left = <<>> THEN Unglue(rest) ELSE rest)

\* re.sub(prefix \s+ re.escape(name), '', temp): every occurrence, left to right
RECURSIVE RemoveName(_, _, _)
RemoveName(t, name, i) ==
    IF i > Len(t) THEN t
    ELSE LET m == MatchAlts(NamePrefix, 1, t, i)
             k == m.end + Len(name) - 1
         IN  IF m.ok /\ k <= Len(t) /\ SubSeq(t, m.end, k) = name
             THEN RemoveName(Cut(t, i, k, <<>>), name, i)
             ELSE RemoveName(t, name, i + 1)

\* str(slot.value) of a float held in cents: "49.99", "49.9", "50.0"
FloatStr(cents) ==
    [ip |-> cents \div 100,
     fr |-> IF cents % 100 = 0 THEN <<0>>
            ELSE IF cents % 10 = 0 THEN <<(cents % 100) \div 10>>
            ELSE <<(cents % 100) \div 10, cents % 10>>]

IsPrefix(p, q) == Len(p) <= Len(q) /\ SubSeq(q, 1, Len(p)) = p

\* the expression str(value), whose "." matches any character, matched at
\* the first digit of token j: the last token it reaches and the digits of
\* that token it leaves behind
VMatch(t, j, cents) ==
    LET v == FloatStr(cents)
        tok == t[j]
        canon == (Len(tok.d) = 1 \/ tok.d[1] # 0) /\ DigitsToInt(tok.d) = v.ip
    IN  IF tok.d = <<>> \/ ~canon THEN [ok |-> FALSE, last |-> 0, left |-> <<>>]
        ELSE IF tok.f # <<>>
        THEN [ok |-> IsPrefix(v.fr, tok.f), last |-> j,
              left |-> IF Len(v.fr) < Len(tok.f)
                       THEN <<N(SubSeq(tok.f, Len(v.fr) + 1, Len(tok.f)))>> ELSE <<>>]
        ELSE LET nxt == IF j < Len(t) THEN t[j + 1] ELSE Comma
                 ok == j < Len(t) /\ nxt.d # <<>> /\ ~nxt.cur /\ nxt.f = <<>>
                       /\ IsPrefix(v.fr, nxt.d)
             IN  [ok |-> ok, last |-> j + 1,
                  left |-> IF ok /\ Len(v.fr) < Len(nxt.d)
                           THEN <<N(SubSeq(nxt.d, Len(v.fr) + 1, Len(nxt.d)))>> ELSE <<>>]

\* re.sub(rf'price\s*\$?{v}|${v}|{v}\s*dollars?', '', temp); the middle
\* alternative starts with the end-of-text anchor and never matches
RECURSIVE RemovePrice(_, _, _)
RemovePrice(t, cents, i) ==
    IF i > Len(t) THEN t
    ELSE LET a1 == IF IsWord(t[i]) /\ t[i].w = "price" /\ i < Len(t)
                   THEN VMatch(t, i + 1, cents)
                   ELSE [ok |-> FALSE, last |-> 0, left |-> <<>>]
             a3 == VMatch(t, i, cents)
             dollars == a3.ok /\ a3.left = <<>> /\ a3.last < Len(t)
                        /\ IsWord(t[a3.last + 1])
                        /\ t[a3.last + 1].w \in StartsWith("dollar")
         IN  IF a1.ok THEN RemovePrice(Cut(t, i, a1.last, a1.left), cents, i + Len(a1.left))
             ELSE IF dollars
             THEN RemovePrice(Cut(t, i, a3.last + 1, IF t[i].cur THEN <<W("$")>> ELSE <<>>),
                              cents, i + (IF t[i].cur THEN 1 ELSE 0))
             ELSE RemovePrice(t, cents, i + 1)

RECURSIVE RemoveSlots(_, _, _)
RemoveSlots(temp_text, existing_slots, k) ==
    IF k > Len(existing_slots) THEN temp_text
    ELSE LET slot == existing_slots[k]
             nxt == CASE slot.name = "name" -> RemoveName(temp_text, lower(slot.value.s), 1)
                      [] slot.name = "price" -> RemovePrice(temp_text, slot.value.n, 1)
                      [] OTHER -> temp_text
         IN  RemoveSlots(nxt, existing_slots, k + 1)

TextLen(t) == IF t = <<>> THEN 0 ELSE CharEnd(t, Len(t))

\* re.sub(r'^\s*[,]\s*', '', temp_text), then the blanks normalised
StripLeadingComma(temp_text) ==
    Unglue(IF temp_text # <<>> /\ IsComma(temp_text[1])
           THEN Tail(temp_text) ELSE temp_text)

DescriptionOfRest(temp_text) ==
    IF temp_text # <<>> /\ TextLen(temp_text) > 2
    THEN << [name |-> "description",
             value |-> StrVal(temp_text),
             confidence |-> 70000,
             start_pos |-> 0,
             end_pos |-> TextLen(temp_text)] >>
    ELSE <<>>

extract_description_fallback(text, existing_slots) ==
    DescriptionOfRest(StripLeadingComma(RemoveSlots(lower(text), existing_slots, 1)))

(***************************************************************************)
(* joint_classifier.py                                                     *)
(***************************************************************************)
\* base_confidence + 0.05 in IEEE-754 doubles: 0.8 + 0.05 and 0.9 + 0.05
\* round one ulp above 0.85 and 0.95; 0.85 + 0.05 = 0.9 and
\* 0.95 + 0.05 = 1.0 are exact
\* variant: every sum rounds one ulp up
FloatAdd005Up(c) == c + 5000 + 1

FloatAdd005(c) == c + 5000 + (IF c \in {80000, 90000} THEN 1 ELSE 0)

RuleConfidence(rule) == IF rule.plen > 20 THEN FloatAdd005(rule.base) ELSE rule.base

\* variant: a later rule that reaches the best confidence replaces it
RECURSIVE ScanRulesLast(_, _, _)
ScanRulesLast(text, k, best) ==
    IF k > Len(INTENT_PATTERNS) THEN best
    ELSE ScanRulesLast(text, k + 1,
             IF re_search(INTENT_PATTERNS[k].alts, text).ok
                /\ RuleConfidence(INTENT_PATTERNS[k]) >= best.confidence
             THEN [intent |-> INTENT_PATTERNS[k].intent,
                   confidence |-> RuleConfidence(INTENT_PATTERNS[k])]
             ELSE best)

RECURSIVE ScanRules(_, _, _)
ScanRules(text, k, best) ==
    IF k > Len(INTENT_PATTERNS) THEN best
    ELSE LET rule == INTENT_PATTERNS[k]
             confidence == RuleConfidence(rule)
         IN  ScanRules(text, k + 1,
                 IF re_search(rule.alts, text).ok /\ confidence > best.confidence
                 THEN [intent |-> rule.intent, confidence |-> confidence]
                 ELSE best)

_classify_intent(text) ==
    ScanRules(text, 1, [intent |-> "product.list", confidence |-> 50000])

\* variant: the slots of an update extracted for every intent
_extract_slots_any(text, text_lower, intent) == extract_update_slots(text, text_lower)

_extract_slots(text, text_lower, intent) ==
    CASE intent = "product.create" -> extract_create_slots(text, text_lower)
      [] intent = "product.update" -> extract_update_slots(text, text_lower)
      [] intent = "product.delete" -> extract_delete_slots(text, text_lower)
      [] intent = "product.get" -> extract_get_slots(text, text_lower)
      [] OTHER -> <<>>

_post_process_slots(slots, intent, text) ==
    IF intent = "product.create" /\ \A i \in 1..Len(slots) : slots[i].name # "description"
    THEN slots \o extract_description_fallback(text, slots)
    ELSE slots

IntentSlotResult(text, text_lower, best) ==
    [intent |-> best.intent,
     intent_confidence |-> best.confidence,
     slots |-> _post_process_slots(_extract_slots(text, text_lower, best.intent),
                                   best.intent, text),
     raw_text |-> text]

\* JointIntentSlotClassifier.classify
classify(text) == IntentSlotResult(text, lower(text), _classify_intent(lower(text)))

\* word in text.lower() for the words "recent", "latest", "newest": a
\* substring test, so a longer word that holds one of them counts
WordsHoldingRecent == {"recent", "recently", "latest", "newest"}
\* variant: the three words matched as whole words
MentionsRecentWord(text) ==
    \E i \in 1..Len(text) :
        IsWord(text[i]) /\ lower(text)[i].w \in {"recent", "latest", "newest"}

MentionsRecent(text) ==
    \E i \in 1..Len(text) : IsWord(text[i]) /\ lower(text)[i].w \in WordsHoldingRecent

RECURSIVE SlotsToArgs(_, _, _)
SlotsToArgs(slots, k, tool_args) ==
    IF k > Len(slots) THEN tool_args
    ELSE SlotsToArgs(slots, k + 1, Put(tool_args, slots[k].name, slots[k].value))

to_dict(result) ==
    LET args == SlotsToArgs(result.slots, 1, EmptyArgs)
        tool_args == IF result.intent = "product.list" /\ MentionsRecent(result.raw_text)
                     THEN Put(Put(args, "limit", IntVal(1)), "recent_only", BoolVal(TRUE))
                     ELSE args
    IN  [tool_name |-> result.intent,
         tool_args |-> tool_args,
         confidence |-> result.intent_confidence,
         method |-> "ml_joint_classifier",
         slots |-> [i \in 1..Len(result.slots) |->
                      [name |-> result.slots[i].name,
                       value |-> result.slots[i].value,
                       confidence |-> result.slots[i].confidence]]]

(***************************************************************************)
(* classifier/argument_extractor.py                                        *)
(***************************************************************************)
name_patterns == <<
    [kind |-> "span", conf |-> 0, alts |-> NamePrefix, stops |-> {"with", "price"}],
    [kind |-> "span", conf |-> 0, alts |-> << <<Lit({"add", "create"})>> >>,
     stops |-> {"with", "price"}] >>

\* the fourth expression asks for "USD" in upper case and is searched in
\* message_lower
price_patterns == <<
    [kind |-> "tok", conf |-> 0, alts |-> << <<Lit({"price"}), CapPrice>> >>, stops |-> {}],
    [kind |-> "tok", conf |-> 0, alts |-> << <<CapMoney>> >>, stops |-> {}],
    [kind |-> "amount", conf |-> 0, alts |-> << <<CapPrice, Lit(StartsWith("dollar"))>> >>,
     stops |-> {}],
    [kind |-> "amount", conf |-> 0, alts |-> << <<CapPrice, LitUpper({"usd"})>> >>,
     stops |-> {}] >>

id_patterns == <<
    [kind |-> "tok", conf |-> 0, alts |-> << <<Opt({"product"}), Lit({"id"}), CapDigits>> >>,
     stops |-> {}],
    [kind |-> "tok", conf |-> 0, alts |-> << <<Lit(IdVerbs), Opt({"product"}), CapDigits>> >>,
     stops |-> {}] >>

description_patterns == <<
    [kind |-> "span", conf |-> 0, alts |-> << <<Lit({"with"})>> >>, stops |-> {"price"}],
    [kind |-> "span", conf |-> 0, alts |-> << <<Lit({"description"})>> >>, stops |-> {"price"}],
    [kind |-> "span", conf |-> 0, alts |-> << <<Lit({"feature", "features"})>> >>,
     stops |-> {"price"}] >>

name_prefix_patterns == <<
    [kind |-> "tok", conf |-> 0, stops |-> {},
     alts |-> << <<Lit({"starting"}), Lit({"with"}), CapLetter>> >>],
    [kind |-> "tok", conf |-> 0, stops |-> {},
     alts |-> << <<Lit({"that"}), Lit({"start"}), Lit({"with"}), CapLetter>> >>],
    [kind |-> "tok", conf |-> 0, stops |-> {},
     alts |-> << <<Lit({"beginning"}), Lit({"with"}), CapLetter>> >>],
    [kind |-> "tok", conf |-> 0, stops |-> {},
     alts |-> << <<Lit({"starting"}), Lit({"with"}), Lit({"letter"}), CapLetter>> >>] >>

\* for pattern in patterns: match = re.search(...); if match: return ...
RECURSIVE FirstCapture(_, _, _)
FirstCapture(patterns, t, k) ==
    IF k > Len(patterns) THEN [ok |-> FALSE, from |-> 0, to |-> 0, frac |-> FALSE]
    ELSE FirstOk(Capture(patterns[k], t), FirstCapture(patterns, t, k + 1))

\* bool(value) of an Optional[str], Optional[float] or Optional[int]
Truthy(v) ==
    CASE v.ty = "None" -> FALSE
      [] v.ty = "str" -> v.s # <<>>
      [] OTHER -> v.n # 0

\* the first letter of a word, in upper case: case "i" of the token
Initial(tok) == [tok EXCEPT !.c = "i"]

NamePrefixOf(t, g) == IF g.ok THEN StrVal(<<Initial(t[g.from])>>) ELSE NoneVal

_extract_name_prefix(message, message_lower) ==
    NamePrefixOf(message_lower, FirstCapture(name_prefix_patterns, message_lower, 1))

NameOf(t, g) == IF g.ok THEN StrVal(title(SubSeq(t, g.from, g.to))) ELSE NoneVal

_extract_name(message, message_lower) ==
    NameOf(message_lower, FirstCapture(name_patterns, message_lower, 1))

PriceOf(t, g) ==
    IF g.ok THEN process_price(IF g.frac THEN <<N(t[g.from].f)>> ELSE <<t[g.from]>>)
    ELSE NoneVal

_extract_price(message, message_lower) ==
    PriceOf(message_lower, FirstCapture(price_patterns, message_lower, 1))

IdOf(t, g) == IF g.ok THEN IntVal(DigitsToInt(t[g.from].d)) ELSE NoneVal

_extract_id(message, message_lower) ==
    IdOf(message_lower, FirstCapture(id_patterns, message_lower, 1))

\* what is left of the message once name and price are taken out
RestAsDescription(temp_message) ==
    IF temp_message # <<>> /\ TextLen(temp_message) > 2
    THEN StrVal(temp_message) ELSE NoneVal

DescriptionFallback(message_lower, name, price) ==
    IF Truthy(name)
    THEN RestAsDescription(StripLeadingComma(
            IF Truthy(price)
            THEN RemovePrice(RemoveName(message_lower, lower(name.s), 1), price.n, 1)
            ELSE RemoveName(message_lower, lower(name.s), 1)))
    ELSE NoneVal

DescriptionOf(message, t, g) ==
    IF g.ok THEN StrVal(SubSeq(t, g.from, g.to))
    ELSE DescriptionFallback(t, _extract_name(message, t), _extract_price(message, t))

_extract_description(message, message_lower) ==
    DescriptionOf(message, message_lower,
                  FirstCapture(description_patterns, message_lower, 1))

\* if value: args[key] = value
PutIf(args, key, value) == IF Truthy(value) THEN Put(args, key, value) ELSE args

_extract_create_args(message, message_lower) ==
    PutIf(PutIf(PutIf(EmptyArgs,
        "name", _extract_name(message, message_lower)),
        "price", _extract_price(message, message_lower)),
        "description", _extract_description(message, message_lower))

_extract_update_args(message, message_lower) ==
    PutIf(PutIf(PutIf(PutIf(EmptyArgs,
        "id", _extract_id(message, message_lower)),
        "name", _extract_name(message, message_lower)),
        "price", _extract_price(message, message_lower)),
        "description", _extract_description(message, message_lower))

_extract_delete_args(message, message_lower) ==
    PutIf(EmptyArgs, "id", _extract_id(message, message_lower))

_extract_get_args(message, message_lower) ==
    PutIf(EmptyArgs, "id", _extract_id(message, message_lower))

_extract_list_args(message, message_lower) ==
    PutIf(EmptyArgs, "name_prefix", _extract_name_prefix(message, message_lower))

extract_arguments(message, tool_name, static_args) ==
    CASE tool_name = "product.create" -> _extract_create_args(message, lower(message))
      [] tool_name = "product.update" -> _extract_update_args(message, lower(message))
      [] tool_name = "product.delete" -> _extract_delete_args(message, lower(message))
      [] tool_name = "product.get" -> _extract_get_args(message, lower(message))
      [] tool_name = "product.list" -> _extract_list_args(message, lower(message))
      [] OTHER -> static_args

(***************************************************************************)
(* classifier/training/csv_loader.py and classifier/models.py              *)
(*                                                                         *)
(* A CSV row holds its cells as they stand in the file: the confidence     *)
(* and the argument template are strings.                                  *)
(***************************************************************************)
Row(query_pattern, tool_name, tool_args, confidence, intent) ==
    [query_pattern |-> query_pattern, tool_name |-> tool_name,
     tool_args |-> tool_args, confidence |-> confidence,
     query_type |-> "simple", entity |-> "products", intent |-> intent,
     description |-> "pattern"]

\* rows of the kinds a pattern file can hold: a padded tool name, a
\* static limit, a static id, a tool outside the five, a confidence above
\* 1 with a template that is no literal, and a confidence that is no number
CorpusRows ==
    {Row(Words(<<"list", "all", "products">>), " product.list ", "{}", "0.95", "list"),
     Row(Words(<<"show", "latest", "products">>), "product.list", "{'limit': 5}", "0.9",
         "list"),
     Row(<<W("delete"), W("product"), N(<<5>>)>>, "product.delete", "{'id': 5}", "0.95",
         "delete"),
     Row(Words(<<"search", "products">>), "product.search", "{'limit': 5}", "0.9",
         "search"),
     Row(<<W("get"), W("product"), N(<<7>>)>>, "product.get", "limit=5", "1.5", "get"),
     Row(Words(<<"find", "product">>), "product.get", "{}", "high", "get")}

\* float(cell): the value times 100000, or ValueError
float(cell) ==
    CASE cell = "0.95" -> [ok |-> TRUE, val |-> 95000]
      [] cell = "0.9" -> [ok |-> TRUE, val |-> 90000]
      [] cell = "1.5" -> [ok |-> TRUE, val |-> 150000]
      [] OTHER -> [ok |-> FALSE, val |-> 0]

\* cell.strip() of a tool name
strip(cell) == IF cell = " product.list " THEN "product.list" ELSE cell

QueryPattern(row) ==
    [query_pattern |-> row.query_pattern,
     tool_name |-> strip(row.tool_name),
     tool_args |-> row.tool_args,
     confidence |-> float(row.confidence).val,
     query_type |-> row.query_type,
     entity |-> row.entity,
     intent |-> row.intent,
     description |-> row.description]

\* the rows of one file in order; an exception (a confidence that is no
\* number) ends the file and keeps the patterns appended before it
RECURSIVE LoadRows(_, _, _)
LoadRows(reader, k, patterns) ==
    IF k > Len(reader) \/ ~float(reader[k].confidence).ok THEN patterns
    ELSE LoadRows(reader, k + 1, Append(patterns, QueryPattern(reader[k])))

\* a file open() raises on: the exception is caught before any row is read
Unreadable == <<[raises |-> "open"]>>

_load_csv_file(csv_file) ==
    IF csv_file = Unreadable THEN <<>> ELSE LoadRows(csv_file, 1, <<>>)

RECURSIVE load_patterns_from_csv(_)
load_patterns_from_csv(data_dir) ==
    IF data_dir = <<>> THEN <<>>
    ELSE _load_csv_file(Head(data_dir)) \o load_patterns_from_csv(Tail(data_dir))

(***************************************************************************)
(* classifier/persistence.py                                               *)
(*                                                                         *)
(* The persisted model file: readable or not, and the keys of the pickled  *)
(* dictionary.  A pickled pipeline is a fitted one; classes are the tool   *)
(* names it was fitted on.                                                 *)
(***************************************************************************)
ModelFile(readable, keys, file_patterns, classes) ==
    [readable |-> readable, keys |-> keys, patterns |-> file_patterns,
     classes |-> classes]

\* ModelPersistence.load_model: the dictionary, {} after any exception
ModelPersistence_load_model(file) ==
    IF file.readable THEN [keys |-> file.keys, patterns |-> file.patterns,
                           classes |-> file.classes]
    ELSE [keys |-> {}, patterns |-> <<>>, classes |-> <<>>]

\* ModelPersistence.save_model: writes the dictionary, or logs the
\* exception; returns None either way.  A write that fails leaves no
\* readable file.
ModelPersistence_save_model(writable, pipe, patterns) ==
    [raised |-> FALSE, value |-> "None",
     log |-> IF writable THEN "Model saved" ELSE "Failed to save model",
     file |-> IF writable
              THEN ModelFile(TRUE, {"pipeline", "patterns"}, patterns, pipe.classes)
              ELSE ModelFile(FALSE, {}, <<>>, <<>>)]

(***************************************************************************)
(* classifier/training/ml_classifier.py                                    *)
(*                                                                         *)
(* The scikit-learn pipeline is kept as what the program sees of it: an    *)
(* object that is unfitted, being fitted, or fitted on a list of labels.   *)
(* A fitted pipeline predicts one of its classes and a highest class       *)
(* probability in quarters, both fixed by the training data and the        *)
(* message; which ones is left open by the number `oracle`.  fit is taken  *)
(* to succeed (every corpus text has a word that is no stop word).         *)
(***************************************************************************)
ToolOrder == <<"product.create", "product.delete", "product.get", "product.list",
               "product.search", "product.update">>

Pipeline == [state |-> "unfitted", classes |-> <<>>]

ToolNamed(patterns, name) == \E i \in 1..Len(patterns) : patterns[i].tool_name = name

\* pipeline.fit(texts, tool_names): classes_ are the sorted distinct labels
fit(patterns) ==
    [state |-> "fitted",
     classes |-> SelectSeq(ToolOrder, LAMBDA name : ToolNamed(patterns, name))]

predict(oracle, pipe, message) ==
    pipe.classes[((oracle + TextLen(message)) % Len(pipe.classes)) + 1]

\* max(predict_proba(...)[0]) in quarters: 1.0 with one class, at least
\* 0.5 here otherwise
max_proba(oracle, pipe, message) ==
    IF Len(pipe.classes) = 1 THEN 4 ELSE 2 + ((oracle + Len(message)) % 3)

\* ast.literal_eval(template); an exception gives {}
literal_eval(template) ==
    CASE template = "{'limit': 5}" -> Put(EmptyArgs, "limit", IntVal(5))
      [] template = "{'id': 5}" -> Put(EmptyArgs, "id", IntVal(5))
      [] OTHER -> EmptyArgs

\* str.lower().split(): a comma written against a word belongs to it
RECURSIVE WordEnd(_, _)
WordEnd(t, i) == IF i < Len(t) /\ t[i + 1].g THEN WordEnd(t, i + 1) ELSE i

split(t) == {SubSeq(lower(t), i, WordEnd(t, i)) : i \in {j \in 1..Len(t) : ~t[j].g}}

\* |intersection| / |union| as the fraction num/den
_calculate_similarity(message, pattern) ==
    IF split(pattern) = {} THEN [num |-> 0, den |-> 1]
    ELSE [num |-> Cardinality(split(message) \cap split(pattern)),
          den |-> Cardinality(split(message) \cup split(pattern))]

\* variant: a pattern as similar as the best one replaces it
BetterOrEqual(best, k, similarity) ==
    IF similarity.num * best.den >= best.num * similarity.den
    THEN [idx |-> k, num |-> similarity.num, den |-> similarity.den]
    ELSE best

\* if similarity > best_similarity: the pattern (its index) replaces best
Better(best, k, similarity) ==
    IF similarity.num * best.den > best.num * similarity.den
    THEN [idx |-> k, num |-> similarity.num, den |-> similarity.den]
    ELSE best

RECURSIVE BestPattern(_, _, _, _, _)
BestPattern(patterns, predicted_tool, message, k, best) ==
    IF k > Len(patterns) THEN best
    ELSE BestPattern(patterns, predicted_tool, message, k + 1,
            IF patterns[k].tool_name = predicted_tool
            THEN Better(best, k, _calculate_similarity(message, patterns[k].query_pattern))
            ELSE best)

\* variant: the fallback names product.get
DefaultGet(message) ==
    [tool_name |-> "product.get", tool_args |-> EmptyArgs, confidence |-> 50000,
     method |-> "default", query_type |-> "simple", entity |-> "products",
     intent |-> "get", description |-> "Default fallback"]

_default_result(message) ==
    [tool_name |-> "product.list", tool_args |-> EmptyArgs, confidence |-> 50000,
     method |-> "default", query_type |-> "simple", entity |-> "products",
     intent |-> "list", description |-> "Default fallback"]

\* variant: the pattern's confidence taken as the result's
ResultAtBaseConfidence(best_pattern, quarters) ==
    [tool_name |-> best_pattern.tool_name,
     tool_args |-> literal_eval(best_pattern.tool_args),
     confidence |-> best_pattern.confidence,
     method |-> "ml_classifier",
     query_type |-> best_pattern.query_type,
     entity |-> best_pattern.entity,
     intent |-> best_pattern.intent,
     description |-> best_pattern.description]

\* confidence * best_pattern.confidence with confidence = quarters / 4
ClassificationResult(best_pattern, quarters) ==
    [tool_name |-> best_pattern.tool_name,
     tool_args |-> literal_eval(best_pattern.tool_args),
     confidence |-> (quarters * best_pattern.confidence) \div 4,
     method |-> "ml_classifier",
     query_type |-> best_pattern.query_type,
     entity |-> best_pattern.entity,
     intent |-> best_pattern.intent,
     description |-> best_pattern.description]

ResultOfBest(patterns, best, quarters, message) ==
    IF best.idx # 0 THEN ClassificationResult(patterns[best.idx], quarters)
    ELSE _default_result(message)

\* lines 57-95 of classify: prediction, best pattern, result
PredictAndMatch(oracle, patterns, pipe, message) ==
    ResultOfBest(patterns,
                 BestPattern(patterns, predict(oracle, pipe, message), message, 1,
                             [idx |-> 0, num |-> 0, den |-> 1]),
                 max_proba(oracle, pipe, message), message)

\* an MLClassifier object and the pipeline objects of the heap; pipeline 0
\* is None
MLClassifier(patterns) == [patterns |-> patterns, pipeline |-> 0, is_trained |-> FALSE]

\* variant: is_trained set whether or not there are patterns
TrainMarks(self, heap) ==
    IF self.patterns = <<>> THEN [self |-> [self EXCEPT !.is_trained = TRUE], heap |-> heap]
    ELSE [self |-> [self EXCEPT !.pipeline = Len(heap) + 1, !.is_trained = TRUE],
          heap |-> Append(heap, fit(self.patterns))]

MLClassifier_train(self, heap) ==
    IF self.patterns = <<>> THEN [self |-> self, heap |-> heap]
    ELSE [self |-> [self EXCEPT !.pipeline = Len(heap) + 1, !.is_trained = TRUE],
          heap |-> Append(heap, fit(self.patterns))]

ClassifyTrained(oracle, st, message) ==
    [self |-> st.self, heap |-> st.heap,
     result |-> IF st.self.pipeline = 0 THEN _default_result(message)
                ELSE PredictAndMatch(oracle, st.self.patterns, st.heap[st.self.pipeline],
                                     message)]

\* variant: the call that trains answers with the fallback
ClassifyDefaultOnTraining(oracle, self, heap, message) ==
    IF ~self.is_trained
    THEN [self |-> MLClassifier_train(self, heap).self,
          heap |-> MLClassifier_train(self, heap).heap,
          result |-> _default_result(message)]
    ELSE ClassifyTrained(oracle, [self |-> self, heap |-> heap], message)

MLClassifier_classify(oracle, self, heap, message) ==
    ClassifyTrained(oracle,
                    IF ~self.is_trained THEN MLClassifier_train(self, heap)
                    ELSE [self |-> self, heap |-> heap],
                    message)

(***************************************************************************)
(* classifier/training/trainer.py                                          *)
(***************************************************************************)
\* ClassifierTrainer(): ml_classifier None is the empty sequence
ClassifierTrainer == [patterns |-> <<>>, ml_classifier |-> <<>>]

\* train with the patterns loaded: None without patterns, else the trained
\* MLClassifier
Trained(patterns, ml) ==
    [self |-> [patterns |-> patterns, ml_classifier |-> <<ml.self>>],
     heap |-> ml.heap, value |-> "MLClassifier"]

TrainOn(self, heap, patterns) ==
    IF patterns = <<>>
    THEN [self |-> [self EXCEPT !.patterns = patterns], heap |-> heap, value |-> "None"]
    ELSE Trained(patterns, MLClassifier_train(MLClassifier(patterns), heap))

ClassifierTrainer_train(self, heap, data_dir) ==
    TrainOn(self, heap, load_patterns_from_csv(data_dir))

\* save_trained_model after its call of save_model: the log line follows
\* whatever save_model did
AfterSave(save) ==
    [status |-> "returned", called |-> TRUE, raised |-> save.raised, value |-> save.value,
     log |-> <<save.log, "Trained model saved">>, file |-> save.file]

ClassifierTrainer_save_trained_model(self, heap, writable, file) ==
    IF self.ml_classifier # <<>> /\ self.ml_classifier[1].is_trained
    THEN AfterSave(ModelPersistence_save_model(writable, heap[self.ml_classifier[1].pipeline],
                                               self.patterns))
    ELSE [status |-> "returned", called |-> FALSE, raised |-> FALSE, value |-> "None",
          log |-> <<"No trained model to save">>, file |-> file]

(***************************************************************************)
(* classifier/csv_classifier.py                                            *)
(***************************************************************************)
\* CSVBasedClassifier(): Optional[MLClassifier] is a sequence of no or one
CSVBasedClassifier == [patterns |-> <<>>, ml_classifier |-> <<>>, is_loaded |-> FALSE]

\* the MLClassifier built from the loaded dictionary
LoadedClassifier(model_data, heap) ==
    IF "pipeline" \in model_data.keys
    THEN [MLClassifier(IF "patterns" \in model_data.keys THEN model_data.patterns ELSE <<>>)
            EXCEPT !.pipeline = Len(heap) + 1, !.is_trained = TRUE]
    ELSE MLClassifier(IF "patterns" \in model_data.keys THEN model_data.patterns ELSE <<>>)

\* load_model with the dictionary read: an empty dictionary raises
\* Exception("Model file not found")
LoadFrom(self, heap, model_data) ==
    IF model_data.keys # {}
    THEN [raised |-> FALSE,
          self |-> [patterns |-> IF "patterns" \in model_data.keys
                                 THEN model_data.patterns ELSE <<>>,
                    ml_classifier |-> <<LoadedClassifier(model_data, heap)>>,
                    is_loaded |-> TRUE],
          heap |-> IF "pipeline" \in model_data.keys
                   THEN Append(heap, [state |-> "fitted", classes |-> model_data.classes])
                   ELSE heap]
    ELSE [raised |-> TRUE, self |-> self, heap |-> heap]

CSVBasedClassifier_load_model(self, heap, file) ==
    LoadFrom(self, heap, ModelPersistence_load_model(file))

\* any(word in message.lower() for word in ["recent", "latest", "newest"])
AnyRecentWord(message) ==
    \E i \in 1..Len(message) :
        IsWord(message[i]) /\ lower(message)[i].w \in WordsHoldingRecent

\* variant: the arguments left as extracted
KeepExtracted(message, tool_name, dynamic_args) == dynamic_args

ForceRecent(message, tool_name, dynamic_args) ==
    IF tool_name = "product.list" /\ AnyRecentWord(message)
    THEN Put(Put(dynamic_args, "limit", IntVal(1)), "recent_only", BoolVal(TRUE))
    ELSE dynamic_args

_enhance_with_dynamic_extraction(message, result) ==
    [result EXCEPT !.tool_args =
        ForceRecent(message, result.tool_name,
                    extract_arguments(message, result.tool_name, result.tool_args))]

_result_to_dict(result) ==
    [tool_name |-> result.tool_name, tool_args |-> result.tool_args,
     confidence |-> result.confidence, method |-> result.method,
     query_type |-> result.query_type, entity |-> result.entity,
     intent |-> result.intent, description |-> result.description]

NoClassification ==
    [tool_name |-> "", tool_args |-> EmptyArgs, confidence |-> 0, method |-> "",
     query_type |-> "", entity |-> "", intent |-> "", description |-> ""]

\* what a call of classify leaves: how it ended, the objects after it, the
\* result of ml_classifier.classify and the dictionary returned
Returned(self, ml, message) ==
    [status |-> "returned",
     self |-> [self EXCEPT !.ml_classifier = <<ml.self>>],
     heap |-> ml.heap,
     ml_result |-> ml.result,
     result |-> _result_to_dict(_enhance_with_dynamic_extraction(message, ml.result))]

ClassifyLoaded(oracle, loaded, message) ==
    IF loaded.raised
    THEN [status |-> "raised", self |-> loaded.self, heap |-> loaded.heap,
          ml_result |-> NoClassification, result |-> NoClassification]
    ELSE Returned(loaded.self,
                  MLClassifier_classify(oracle, loaded.self.ml_classifier[1], loaded.heap,
                                        message),
                  message)

CSVBasedClassifier_classify(oracle, self, heap, file, message) ==
    ClassifyLoaded(oracle,
                   IF ~self.is_loaded THEN CSVBasedClassifier_load_model(self, heap, file)
                   ELSE [raised |-> FALSE, self |-> self, heap |-> heap],
                   message)

(***************************************************************************)
(* Request texts.                                                          *)
(***************************************************************************)
MaxId == 12

CoreVocab ==
    {W("delete"), W("show"), W("get"), W("list"), W("add"), W("product"),
     W("products"), W("id"), W("latest"), W("recently"), Title("newest"),
     N(<<0>>), N(<<4, 2>>)}

RECURSIVE DigitsOf(_)
DigitsOf(n) == IF n < 10 THEN <<n>> ELSE DigitsOf(n \div 10) \o <<n % 10>>

DeleteProduct(ds) == <<W("delete"), W("product"), N(ds)>>

\* "add <name>, with <description>, price $<p>"
AddForm(name, description, p) ==
    <<W("add")>> \o name \o <<Comma, W("with")>> \o description
        \o <<Comma, W("price"), p>>

\* names, descriptions and prices for that form: a price written with two
\* digits after the point, with none and with one
AddParts ==
    [name : {<<Title("smart"), Title("lamp")>>, <<W("lamp")>>},
     description : {Words(<<"remote", "control">>), <<W("usb")>>},
     price : {Money(<<4, 9>>, <<9, 9>>), Money(<<5>>, <<>>), Money(<<4, 9>>, <<5>>)}]

\* "<verb> n" and "<verb> product n" for the verbs of the get rules
GetRequests ==
    UNION {{<<W(verb), N(DigitsOf(n))>>, <<W(verb), W("product"), N(DigitsOf(n))>>} :
           verb \in GetVerbs, n \in {0, 5, MaxId}}

\* every text of at most MaxLen core tokens, "delete product n", requests
\* for one product by id, and longer requests of the kinds the API documents
Texts ==
    UNION {[1..n -> CoreVocab] : n \in 0..MaxLen}
    \cup {DeleteProduct(DigitsOf(n)) : n \in 0..MaxId}
    \cup GetRequests
    \cup {DeleteProduct(<<0, 0, 7>>),
          <<W("add"), Title("laptop"), Comma, W("price"), Money(<<9, 9, 9>>, <<>>)>>,
          <<W("what"), W("products"), W("do"), W("you"), W("have")>>,
          <<W("update"), W("product"), N(<<5>>), W("price"), N(<<2, 0>>), W("dollars")>>,
          <<Upper("show"), Upper("latest"), Upper("products")>>,
          <<W("show"), W("me"), W("the"), W("catalog")>>,
          <<W("find"), W("product"), W("id"), N(<<3>>)>>,
          <<W("hello"), W("there")>>,
          Words(<<"create", "a", "new", "product">>)}
    \cup {AddForm(parts.name, parts.description, parts.price) : parts \in AddParts}

\* requests sent to both classifiers
CsvTexts ==
    {<<>>,
     Words(<<"list", "all", "products">>),
     <<W("show"), Title("latest"), W("products")>>,
     Words(<<"show", "latest", "products">>),
     DeleteProduct(<<0>>),
     Words(<<"recently", "added">>),
     Words(<<"search", "products">>),
     Words(<<"list", "products", "starting", "with", "a">>)}

MaxCorpus == 2
MaxOracle == 1
NumThreads == 2
MaxFiles == 2

Threads == 1..NumThreads

\* the pattern directory: no file, or one file of at most MaxCorpus rows
CsvDirs == {<<>>} \cup {<<csv_file>> : csv_file \in UNION {[1..n -> CorpusRows] : n \in 0..MaxCorpus}}

Corpora == {load_patterns_from_csv(data_dir) : data_dir \in CsvDirs}

\* the model file the training script can have left, a file holding only
\* some of the keys, or none
ModelFiles ==
    {ModelFile(FALSE, {}, <<>>, <<>>)}
    \cup {ModelFile(TRUE, keys, corpus,
                    IF "pipeline" \in keys THEN fit(corpus).classes ELSE <<>>) :
            keys \in SUBSET {"pipeline", "patterns"},
            corpus \in {c \in Corpora : c # <<>>}}
    \cup {ModelFile(TRUE, keys, <<>>, <<>>) : keys \in {{}, {"patterns"}}}

\* the pattern directory of the training script: at most MaxFiles files in
\* the order glob yields them, each unreadable or of at most MaxCorpus rows,
\* well-formed ones and one whose confidence is no number
TrainDirs ==
    UNION {[1..n -> {Unreadable}
                    \cup UNION {[1..k -> {row \in CorpusRows :
                                            row.intent \in {"list", "delete"}
                                            \/ row.confidence = "high"}] :
                                k \in 0..MaxCorpus}] :
           n \in 0..MaxFiles}

Tools == {"product.create", "product.update", "product.delete", "product.get",
          "product.list"}

NoResult == [tool_name |-> "", tool_args |-> EmptyArgs, confidence |-> 0,
             method |-> "", slots |-> <<>>]

NoOutcome == [status |-> "none", ml_result |-> NoClassification,
              result |-> NoClassification]

VARIABLES
    request,        \* the message of the request being served
    rule_result,    \* what the rule-based classifier answered to it
    csv_result,     \* how csv_classifier.classify ended for it
    model_file,     \* the persisted model on disk
    oracle,         \* fixes what a fitted pipeline predicts
    csv_classifier, \* the global CSVBasedClassifier
    heap,           \* the pipeline objects
    pc,             \* where each thread stands in MLClassifier.classify
    local,          \* each thread's local variables and how its call ended
    trainings,      \* executions of MLClassifier.train begun so far
    data_dir,       \* the CSV files of the pattern directory
    writable,       \* whether the model file can be written
    trainer,        \* the training script's ClassifierTrainer
    trained,        \* how trainer.train() ended
    saved,          \* how trainer.save_trained_model() ended
    app,            \* the chat application: its start-up, global and app.state
    handed,         \* what get_csv_classifier gave the last /v3 request
    executed,       \* load_model executions, pipeline fits and /v3 requests so far
    db,             \* the products table and its id sequence
    crud_call       \* the last call of a crud function and what it did

rulesVars == <<request, rule_result>>
csvVars == <<csv_result, model_file, oracle, csv_classifier, heap>>
concVars == <<pc, local, trainings>>
trainVars == <<data_dir, writable, trainer, trained, saved>>
appVars == <<app, handed, executed>>
storeVars == <<db, crud_call>>
vars == <<request, rule_result, csv_result, model_file, oracle, csv_classifier, heap,
          pc, local, trainings, data_dir, writable, trainer, trained, saved,
          app, handed, executed, db, crud_call>>

NotCalled == [status |-> "none", value |-> "None"]
NotSaved == [status |-> "none", called |-> FALSE, raised |-> FALSE, value |-> "None",
             log |-> <<>>]

NoTraining ==
    /\ data_dir = <<>>
    /\ writable = TRUE
    /\ trainer = ClassifierTrainer
    /\ trained = NotCalled
    /\ saved = NotSaved

NotStarted == [status |-> "none", csv_classifier |-> <<>>, state |-> FALSE,
               load_raised |-> FALSE]
NotHanded == [status |-> "none", source |-> "", is_loaded |-> FALSE]

NoApp ==
    /\ app = NotStarted
    /\ handed = NotHanded
    /\ executed = [loads |-> 0, fits |-> 0, requests |-> 0]

\* an Optional value is a sequence of none or one; None is <<>>
NoRows == [product_id \in {} |-> <<>>]
NoData == [name |-> <<>>, price |-> <<>>, description |-> <<>>]
NoCrudCall == [op |-> "none", product_id |-> 0, data |-> NoData, value |-> <<>>,
               deletes |-> 0, commits |-> 0, before |-> NoRows]

NoStore ==
    /\ db = [rows |-> NoRows, seq |-> 1, deleted |-> {}]
    /\ crud_call = NoCrudCall

NoLocals == [pipeline |-> 0, predicted_tool |-> "", status |-> "none",
             result |-> NoClassification]

NoCalls ==
    /\ pc = [t \in Threads |-> "idle"]
    /\ local = [t \in Threads |-> NoLocals]
    /\ trainings = 0

\* a new request arrives
Receive(message) ==
    /\ request' = message
    /\ rule_result' = NoResult
    /\ csv_result' = NoOutcome
    /\ UNCHANGED <<model_file, oracle, csv_classifier, heap, concVars, trainVars, appVars, storeVars>>

\* POST /chat/v2: joint_classifier.classify(message), then to_dict
RuleClassify ==
    /\ rule_result' = to_dict(classify(request))
    /\ UNCHANGED <<request, csvVars, concVars, trainVars, appVars, storeVars>>

\* application start-up: load_model() in a try block that logs a failure
LoadModel ==
    /\ ~csv_classifier.is_loaded
    /\ \E loaded \in {CSVBasedClassifier_load_model(csv_classifier, heap, model_file)} :
        /\ csv_classifier' = loaded.self
        /\ heap' = loaded.heap
    /\ UNCHANGED <<rulesVars, csv_result, model_file, oracle, concVars, trainVars, appVars, storeVars>>

\* classify_message_csv(message): csv_classifier.classify with its lazy
\* load and lazy training
CsvClassify ==
    /\ \E done \in {CSVBasedClassifier_classify(oracle, csv_classifier, heap, model_file,
                                                request)} :
        /\ csv_classifier' = done.self
        /\ heap' = done.heap
        /\ csv_result' = [status |-> done.status, ml_result |-> done.ml_result,
                          result |-> done.result]
    /\ UNCHANGED <<rulesVars, model_file, oracle, concVars, trainVars, appVars, storeVars>>

InitRules ==
    /\ request \in Texts
    /\ rule_result = NoResult
    /\ csv_result = NoOutcome
    /\ model_file = ModelFile(FALSE, {}, <<>>, <<>>)
    /\ oracle = 0
    /\ csv_classifier = CSVBasedClassifier
    /\ heap = <<>>
    /\ NoCalls
    /\ NoTraining
    /\ NoApp
    /\ NoStore

NextRules == RuleClassify

SpecRules == InitRules /\ [][NextRules]_vars

Init ==
    /\ request \in CsvTexts
    /\ rule_result = NoResult
    /\ csv_result = NoOutcome
    /\ model_file \in ModelFiles
    /\ oracle \in 0..MaxOracle
    /\ csv_classifier = CSVBasedClassifier
    /\ heap = <<>>
    /\ NoCalls
    /\ NoTraining
    /\ NoApp
    /\ NoStore

Next ==
    \/ \E message \in CsvTexts : Receive(message)
    \/ RuleClassify
    \/ LoadModel
    \/ CsvClassify

Spec == Init /\ [][Next]_vars

(***************************************************************************)
(* The training script: ClassifierTrainer().train(), save_trained_model,   *)
(* and the application's start-up load of what was saved.                  *)
(***************************************************************************)
\* trainer.train()
Train ==
    /\ trained.status = "none"
    /\ \E done \in {ClassifierTrainer_train(trainer, heap, data_dir)} :
        /\ trainer' = done.self
        /\ heap' = done.heap
        /\ trained' = [status |-> "returned", value |-> done.value]
    /\ UNCHANGED <<rulesVars, csv_result, model_file, oracle, csv_classifier, concVars,
                   data_dir, writable, saved, appVars, storeVars>>

\* trainer.save_trained_model(model_path)
SaveTrainedModel ==
    /\ saved.status = "none"
    /\ \E done \in {ClassifierTrainer_save_trained_model(trainer, heap, writable,
                                                        model_file)} :
        /\ model_file' = done.file
        /\ saved' = [status |-> done.status, called |-> done.called, raised |-> done.raised,
                     value |-> done.value, log |-> done.log]
    /\ UNCHANGED <<rulesVars, csv_result, oracle, csv_classifier, heap, concVars,
                   data_dir, writable, trainer, trained, appVars, storeVars>>

InitTrain ==
    /\ request = <<>>
    /\ rule_result = NoResult
    /\ csv_result = NoOutcome
    /\ model_file = ModelFile(FALSE, {}, <<>>, <<>>)
    /\ oracle = 0
    /\ csv_classifier = CSVBasedClassifier
    /\ heap = <<>>
    /\ NoCalls
    /\ data_dir \in TrainDirs
    /\ writable \in BOOLEAN
    /\ trainer = ClassifierTrainer
    /\ trained = NotCalled
    /\ saved = NotSaved
    /\ NoApp
    /\ NoStore

NextTrain ==
    \/ Train
    \/ SaveTrainedModel
    \/ LoadModel

SpecTrain == InitTrain /\ [][NextTrain]_vars

(***************************************************************************)
(* Concurrent calls of MLClassifier.classify on the shared classifier of   *)
(* a loaded CSVBasedClassifier, one per thread, each for the text          *)
(* `request`.  A step is a statement of classify or train; pipeline.fit    *)
(* begins and ends in separate steps.  The class holds no lock.            *)
(***************************************************************************)
Shared == csv_classifier.ml_classifier[1]

Goto(t, label) == pc' = [pc EXCEPT ![t] = label]

Ended(t, status, result) ==
    /\ local' = [local EXCEPT ![t].status = status, ![t].result = result]
    /\ Goto(t, "done")

\* A pipeline method called on an object whose fit has not ended raises
\* NotFittedError on an unfitted object; during fit either outcome is open.

\* a thread enters classify(message)
Call(t) ==
    /\ pc[t] = "idle"
    /\ local' = [local EXCEPT ![t] = NoLocals]
    /\ Goto(t, "classify")
    /\ UNCHANGED <<rulesVars, trainVars, appVars, storeVars, csvVars, trainings>>

\* if not self.is_trained: self.train()
CheckTrained(t) ==
    /\ pc[t] = "classify"
    /\ IF ~Shared.is_trained
       THEN Goto(t, "train") /\ trainings' = trainings + 1
       ELSE Goto(t, "check_pipeline") /\ UNCHANGED trainings
    /\ UNCHANGED <<rulesVars, trainVars, appVars, storeVars, csvVars, local>>

\* train: return without patterns, else self.pipeline = Pipeline([...])
TrainAssign(t) ==
    /\ pc[t] = "train"
    /\ IF Shared.patterns = <<>>
       THEN Goto(t, "check_pipeline") /\ UNCHANGED <<csv_classifier, heap>>
       ELSE /\ heap' = Append(heap, Pipeline)
            /\ csv_classifier' =
                   [csv_classifier EXCEPT !.ml_classifier[1].pipeline = Len(heap) + 1]
            /\ Goto(t, "fit")
    /\ UNCHANGED <<rulesVars, trainVars, appVars, storeVars, csv_result, model_file, oracle, local, trainings>>

\* self.pipeline.fit(texts, tool_names) is entered on the object
\* self.pipeline refers to now
FitBegin(t) ==
    /\ pc[t] = "fit"
    /\ local' = [local EXCEPT ![t].pipeline = Shared.pipeline]
    /\ heap' = [heap EXCEPT ![Shared.pipeline].state = "fitting"]
    /\ Goto(t, "fitting")
    /\ UNCHANGED <<rulesVars, trainVars, appVars, storeVars, csv_result, model_file, oracle, csv_classifier, trainings>>

FitEnd(t) ==
    /\ pc[t] = "fitting"
    /\ heap' = [heap EXCEPT ![local[t].pipeline] = fit(Shared.patterns)]
    /\ Goto(t, "mark")
    /\ UNCHANGED <<rulesVars, trainVars, appVars, storeVars, csv_result, model_file, oracle, csv_classifier, local,
                   trainings>>

\* self.is_trained = True
MarkTrained(t) ==
    /\ pc[t] = "mark"
    /\ csv_classifier' = [csv_classifier EXCEPT !.ml_classifier[1].is_trained = TRUE]
    /\ Goto(t, "check_pipeline")
    /\ UNCHANGED <<rulesVars, trainVars, appVars, storeVars, csv_result, model_file, oracle, heap, local, trainings>>

\* if not self.pipeline: return self._default_result(message)
CheckPipeline(t) ==
    /\ pc[t] = "check_pipeline"
    /\ IF Shared.pipeline = 0
       THEN Ended(t, "returned", _default_result(request))
       ELSE Goto(t, "predict") /\ UNCHANGED local
    /\ UNCHANGED <<rulesVars, trainVars, appVars, storeVars, csvVars, trainings>>

\* predicted_tool = self.pipeline.predict([message])[0]
Predict(t) ==
    /\ pc[t] = "predict"
    /\ \/ /\ heap[Shared.pipeline].state # "fitted"
          /\ Ended(t, "raised", NoClassification)
       \/ /\ heap[Shared.pipeline].state # "unfitted"
          /\ local' = [local EXCEPT ![t].predicted_tool =
                          predict(oracle, fit(Shared.patterns), request)]
          /\ Goto(t, "predict_proba")
    /\ UNCHANGED <<rulesVars, trainVars, appVars, storeVars, csvVars, trainings>>

\* proba = self.pipeline.predict_proba([message])[0] and the rest of
\* classify
PredictProba(t) ==
    /\ pc[t] = "predict_proba"
    /\ \/ /\ heap[Shared.pipeline].state # "fitted"
          /\ Ended(t, "raised", NoClassification)
       \/ /\ heap[Shared.pipeline].state # "unfitted"
          /\ Ended(t, "returned",
                   ResultOfBest(Shared.patterns,
                                BestPattern(Shared.patterns, local[t].predicted_tool,
                                            request, 1, [idx |-> 0, num |-> 0, den |-> 1]),
                                max_proba(oracle, fit(Shared.patterns), request),
                                request))
    /\ UNCHANGED <<rulesVars, trainVars, appVars, storeVars, csvVars, trainings>>

\* the call has returned or raised; the thread is free for another
Return(t) ==
    /\ pc[t] = "done"
    /\ Goto(t, "idle")
    /\ UNCHANGED <<rulesVars, trainVars, appVars, storeVars, csvVars, local, trainings>>

\* a classifier loaded from a model file that holds a non-empty corpus,
\* with or without a pipeline
InitConc ==
    /\ request \in CsvTexts
    /\ rule_result = NoResult
    /\ csv_result = NoOutcome
    /\ model_file \in {file \in ModelFiles : "patterns" \in file.keys /\ file.patterns # <<>>}
    /\ oracle \in 0..MaxOracle
    /\ \E loaded \in {CSVBasedClassifier_load_model(CSVBasedClassifier, <<>>, model_file)} :
        /\ csv_classifier = loaded.self
        /\ heap = loaded.heap
    /\ NoCalls
    /\ NoTraining
    /\ NoApp
    /\ NoStore

NextConc ==
    \E t \in Threads :
        \/ Call(t)
        \/ CheckTrained(t)
        \/ TrainAssign(t)
        \/ FitBegin(t)
        \/ FitEnd(t)
        \/ MarkTrained(t)
        \/ CheckPipeline(t)
        \/ Predict(t)
        \/ PredictProba(t)
        \/ Return(t)

SpecConc == InitConc /\ [][NextConc]_vars

(***************************************************************************)
(* The chat application: app.py's lifespan and POST /chat/v3 with its      *)
(* dependency get_csv_classifier, while the training script may write the  *)
(* model file.                                                             *)
(***************************************************************************)
MaxRequests == 2

\* variant: app.state.csv_classifier assigned whatever load_model did
StartedAnyway(loaded) ==
    [app |-> [status |-> "yielded", csv_classifier |-> <<loaded.self>>, state |-> TRUE,
              load_raised |-> loaded.raised],
     heap |-> loaded.heap]

\* lifespan after csv_classifier.load_model(): the global holds the new
\* instance, app.state refers to it only when load_model returned; the
\* except branch logs, and the yield follows either way
Started(loaded) ==
    [app |-> [status |-> "yielded", csv_classifier |-> <<loaded.self>>,
              state |-> ~loaded.raised, load_raised |-> loaded.raised],
     heap |-> loaded.heap]

lifespan(objects, file) ==
    Started(CSVBasedClassifier_load_model(CSVBasedClassifier, objects, file))

\* the fallback of get_csv_classifier: a new instance, load_model()
\* outside any try block
NewClassifier(loaded) ==
    [raised |-> loaded.raised, source |-> "new", self |-> loaded.self,
     heap |-> loaded.heap, loads |-> 1]

get_csv_classifier(application, objects, file) ==
    IF application.state /\ application.csv_classifier[1].is_loaded
    THEN [raised |-> FALSE, source |-> "app.state",
          self |-> application.csv_classifier[1], heap |-> objects, loads |-> 0]
    ELSE NewClassifier(CSVBasedClassifier_load_model(CSVBasedClassifier, objects, file))

\* chat_v3 with the dependency resolved: classifier.classify(message),
\* unless the dependency raised
chat_v3(orc, got, file, message) ==
    IF got.raised
    THEN [status |-> "raised", self |-> got.self, heap |-> got.heap,
          ml_result |-> NoClassification, result |-> NoClassification]
    ELSE CSVBasedClassifier_classify(orc, got.self, got.heap, file, message)

\* application start-up
Lifespan ==
    /\ app.status = "none"
    /\ \E done \in {lifespan(heap, model_file)} :
        /\ app' = done.app
        /\ heap' = done.heap
    /\ executed' = [executed EXCEPT !.loads = @ + 1]
    /\ UNCHANGED <<rulesVars, csv_result, model_file, oracle, csv_classifier, concVars,
                   trainVars, handed, storeVars>>

\* POST /chat/v3
ChatV3(message) ==
    /\ app.status = "yielded"
    /\ executed.requests < MaxRequests
    /\ \E got \in {get_csv_classifier(app, heap, model_file)} :
        \E done \in {chat_v3(oracle, got, model_file, message)} :
            /\ handed' = [status |-> IF got.raised THEN "raised" ELSE "returned",
                          source |-> got.source, is_loaded |-> got.self.is_loaded]
            /\ app' = IF got.source = "app.state"
                      THEN [app EXCEPT !.csv_classifier = <<done.self>>]
                      ELSE app
            /\ heap' = done.heap
            /\ csv_result' = [status |-> done.status, ml_result |-> done.ml_result,
                              result |-> done.result]
            /\ executed' = [loads |-> executed.loads + got.loads,
                            fits |-> executed.fits + (Len(done.heap) - Len(got.heap)),
                            requests |-> executed.requests + 1]
    /\ request' = message
    /\ rule_result' = NoResult
    /\ UNCHANGED <<model_file, oracle, csv_classifier, concVars, trainVars, storeVars>>

\* the requests sent to /chat/v3
V3Texts == {Words(<<"list", "all", "products">>), DeleteProduct(<<0>>)}

\* the pattern directory of the training script beside the application:
\* no file, or one file of one row
AppDirs == {data \in TrainDirs : Len(data) = 0 \/ (Len(data) = 1 /\ Len(data[1]) = 1)}

InitApp ==
    /\ request = <<>>
    /\ rule_result = NoResult
    /\ csv_result = NoOutcome
    /\ model_file \in ModelFiles
    /\ oracle \in 0..MaxOracle
    /\ csv_classifier = CSVBasedClassifier
    /\ heap = <<>>
    /\ NoCalls
    /\ data_dir \in AppDirs
    /\ writable = TRUE
    /\ trainer = ClassifierTrainer
    /\ trained = NotCalled
    /\ saved = NotSaved
    /\ NoApp
    /\ NoStore

NextApp ==
    \/ Lifespan
    \/ \E message \in V3Texts : ChatV3(message)
    \/ Train
    \/ SaveTrainedModel

SpecApp == InitApp /\ [][NextApp]_vars

(***************************************************************************)
(* mcp_api/product/crud.py over the products table.  Every request has a   *)
(* session of its own (get_db) and makes one crud call; `rows` is the      *)
(* committed table, `seq` the id sequence of the products table in the     *)
(* PostgreSQL database that datbase.py connects to, `deleted` the ids      *)
(* deleted so far.                                                         *)
(***************************************************************************)
MaxProducts == 2

\* what a crud call leaves: the store, the value returned, and the
\* db.delete and db.commit calls it issued
Outcome(store, value, deletes, commits) ==
    [db |-> store, value |-> value, deletes |-> deletes, commits |-> commits]

\* Product(name=..., price=..., description=...) with the id the flush gives
Product(product_id, data) ==
    [id |-> product_id, name |-> data.name, price |-> data.price,
     description |-> data.description]

Insert(rows, row) ==
    [product_id \in (DOMAIN rows) \cup {row.id} |->
        IF product_id = row.id THEN row ELSE rows[product_id]]

create_product(store, data) ==
    Outcome([store EXCEPT !.rows = Insert(store.rows, Product(store.seq, data)),
                          !.seq = store.seq + 1],
            <<Product(store.seq, data)>>, 0, 1)

get_product(store, product_id) ==
    Outcome(store,
            IF product_id \in DOMAIN store.rows THEN <<store.rows[product_id]>> ELSE <<>>,
            0, 0)

\* variant: every field assigned, None included
OverwriteAll(row, data) ==
    [id |-> row.id, name |-> data.name, price |-> data.price,
     description |-> data.description]

\* the three `if data.X is not None: row.X = data.X`
Overwrite(row, data) ==
    [id |-> row.id,
     name |-> IF data.name # <<>> THEN data.name ELSE row.name,
     price |-> IF data.price # <<>> THEN data.price ELSE row.price,
     description |-> IF data.description # <<>> THEN data.description
                     ELSE row.description]

Updated(store, row) ==
    Outcome([store EXCEPT !.rows = Insert(store.rows, row)], <<row>>, 0, 1)

update_product(store, product_id, data) ==
    IF product_id \notin DOMAIN store.rows THEN Outcome(store, <<>>, 0, 0)
    ELSE Updated(store, Overwrite(store.rows[product_id], data))

\* variant: db.delete(row) without the commit, which the closing session
\* rolls back
delete_product_uncommitted(store, product_id) ==
    IF product_id \notin DOMAIN store.rows THEN Outcome(store, <<FALSE>>, 0, 0)
    ELSE Outcome(store, <<TRUE>>, 1, 0)

delete_product(store, product_id) ==
    IF product_id \notin DOMAIN store.rows THEN Outcome(store, <<FALSE>>, 0, 0)
    ELSE Outcome([store EXCEPT
                    !.rows = [other \in (DOMAIN store.rows) \ {product_id} |->
                                store.rows[other]],
                    !.deleted = store.deleted \cup {product_id}],
                 <<TRUE>>, 1, 1)

\* the ids of the requests: those the sequence can give, and one before them
ProductIds == 0..MaxProducts

\* ProductIn of POST /: name and price required, description optional
NewProducts == {[name |-> <<"a">>, price |-> <<1>>, description |-> description] :
                description \in {<<>>, <<"d">>}}

\* the data update_product is given: every field a value or None
Updates == [name : {<<>>, <<"b">>}, price : {<<>>, <<2>>}, description : {<<>>, <<"e">>}]

\* a crud call made and its outcome recorded
Crud(op, product_id, data, done) ==
    /\ db' = done.db
    /\ crud_call' = [op |-> op, product_id |-> product_id, data |-> data,
                     value |-> done.value, deletes |-> done.deletes,
                     commits |-> done.commits, before |-> db.rows]
    /\ UNCHANGED <<rulesVars, csvVars, concVars, trainVars, appVars>>

CreateProduct(data) ==
    /\ db.seq <= MaxProducts
    /\ Crud("create_product", db.seq, data, create_product(db, data))

GetProduct(product_id) ==
    /\ product_id \in ProductIds
    /\ Crud("get_product", product_id, NoData, get_product(db, product_id))

UpdateProduct(product_id, data) ==
    /\ product_id \in ProductIds
    /\ Crud("update_product", product_id, data, update_product(db, product_id, data))

RemoveProduct(product_id) ==
    /\ product_id \in ProductIds
    /\ Crud("delete_product", product_id, NoData, delete_product(db, product_id))

InitStore ==
    /\ request = <<>>
    /\ rule_result = NoResult
    /\ csv_result = NoOutcome
    /\ model_file = ModelFile(FALSE, {}, <<>>, <<>>)
    /\ oracle = 0
    /\ csv_classifier = CSVBasedClassifier
    /\ heap = <<>>
    /\ NoCalls
    /\ NoTraining
    /\ NoApp
    /\ NoStore

NextStore ==
    \/ \E data \in NewProducts : CreateProduct(data)
    \/ \E product_id \in ProductIds : GetProduct(product_id)
    \/ \E product_id \in ProductIds : \E data \in Updates : UpdateProduct(product_id, data)
    \/ \E product_id \in ProductIds : RemoveProduct(product_id)

SpecStore == InitStore /\ [][NextStore]_vars

(***************************************************************************)
(* Properties of the rule-based classifier.                                *)
(***************************************************************************)
\* C1: for every text the rule-based classifier returns one of the five
\* tool identifiers and a confidence within [0, 1], the boosted
\* 0.95 + 0.05 included.
RuleResultInRange ==
    rule_result # NoResult =>
        /\ rule_result.tool_name \in Tools
        /\ rule_result.confidence >= 0
        /\ rule_result.confidence <= 100 * 1000

\* a rule of base confidence 0.95 has matched and the boost made it 1.0
RuleBoostedToOne ==
    /\ rule_result # NoResult
    /\ rule_result.confidence = 100 * 1000
    /\ rule_result.tool_name = "product.delete"

\* C10: "delete product n" resolves to product.delete with the integer n
\* as id, for every n >= 0, 0 included.
DeleteProductGivesIntId ==
    (/\ rule_result # NoResult
     /\ Len(request) = 3
     /\ request = DeleteProduct(request[3].d)) =>
        /\ rule_result.tool_name = "product.delete"
        /\ "id" \in DOMAIN rule_result.tool_args
        /\ rule_result.tool_args["id"] = IntVal(DigitsToInt(request[3].d))

DeleteProductZero ==
    /\ request = DeleteProduct(<<0>>)
    /\ rule_result # NoResult
    /\ rule_result.tool_args["id"] = IntVal(0)

(***************************************************************************)
(* Properties of the corpus-trained classifier.                            *)
(***************************************************************************)
\* C2: for every text and every outcome of the persisted-model load,
\* CSVBasedClassifier.classify returns a result; no exception reaches the
\* caller.
CsvClassifyNeverRaises == csv_result.status # "raised"

\* C3: the confidence of the corpus-trained classifier's result lies in
\* [0, 1], and so does the base confidence of every loaded pattern.
CsvConfidenceInRange ==
    /\ csv_result.status = "returned" =>
            /\ csv_result.result.confidence >= 0
            /\ csv_result.result.confidence <= 100 * 1000
    /\ \A i \in 1..Len(csv_classifier.patterns) :
            /\ csv_classifier.patterns[i].confidence >= 0
            /\ csv_classifier.patterns[i].confidence <= 100 * 1000

ZeroPatternsDefault ==
    (csv_classifier.is_loaded /\ csv_classifier.ml_classifier[1].patterns = <<>>) =>
        /\ "pipeline" \notin model_file.keys =>
                /\ ~csv_classifier.ml_classifier[1].is_trained
                /\ csv_classifier.ml_classifier[1].pipeline = 0
                /\ heap = <<>>
        /\ csv_result.status = "returned" =>
                /\ csv_result.ml_result.tool_name = "product.list"
                /\ csv_result.ml_result.tool_args = EmptyArgs
                /\ csv_result.ml_result.confidence = 50 * 1000
                /\ csv_result.ml_result.method = "default"

\* a classify call has gone through train with no pattern loaded
ZeroPatternsClassified ==
    /\ csv_result.status = "returned"
    /\ model_file.keys = {"patterns"}
    /\ csv_classifier.ml_classifier[1].patterns = <<>>
    /\ request = <<W("show"), Title("latest"), W("products")>>
    /\ csv_result.ml_result.method = "default"

(***************************************************************************)
(* Properties of the two classifiers together.                             *)
(***************************************************************************)
\* C6: in either classifier, when the tool is product.list and the
\* lower-cased text holds "recent", "latest" or "newest", the arguments
\* have limit = 1 and recent_only = true; for the same text and the same
\* tool the two classifiers agree on these two keys.
RecentForcesLimitOne ==
    LET says == \E i \in 1..Len(request) :
                    /\ IsWord(request[i])
                    /\ lower(request)[i].w \in {"recent", "recently", "latest", "newest"}
        Forced(args) == /\ "limit" \in DOMAIN args
                        /\ args["limit"] = IntVal(1)
                        /\ "recent_only" \in DOMAIN args
                        /\ args["recent_only"] = BoolVal(TRUE)
        Agree(a, b, key) == /\ key \in DOMAIN a <=> key \in DOMAIN b
                            /\ key \in DOMAIN a => a[key] = b[key]
    IN  /\ (rule_result # NoResult /\ rule_result.tool_name = "product.list" /\ says) =>
                Forced(rule_result.tool_args)
        /\ (csv_result.status = "returned" /\ csv_result.result.tool_name = "product.list"
                /\ says) =>
                Forced(csv_result.result.tool_args)
        /\ (rule_result # NoResult /\ csv_result.status = "returned"
                /\ rule_result.tool_name = csv_result.result.tool_name) =>
                /\ Agree(rule_result.tool_args, csv_result.result.tool_args, "limit")
                /\ Agree(rule_result.tool_args, csv_result.result.tool_args, "recent_only")

\* "show Latest products" has gone through both classifiers; the corpus
\* pattern chosen carries a limit of 5
LatestThroughBoth ==
    /\ request = <<W("show"), Title("latest"), W("products")>>
    /\ rule_result # NoResult
    /\ rule_result.tool_args["limit"] = IntVal(1)
    /\ csv_result.status = "returned"
    /\ csv_result.ml_result.tool_args = Put(EmptyArgs, "limit", IntVal(5))
    /\ csv_result.result.tool_args["limit"] = IntVal(1)
    /\ csv_result.result.tool_args["recent_only"] = BoolVal(TRUE)

\* C7: whatever calls came before, a call of either classifier ends as the
\* first call on a newly constructed classifier does for the same text,
\* corpus and model file: the lazy load and training change no result, and
\* the rule-based result is a function of the text alone.
SameResultEveryCall ==
    /\ rule_result # NoResult => rule_result = to_dict(classify(request))
    /\ csv_result.status # "none" =>
            \E first \in {CSVBasedClassifier_classify(oracle, CSVBasedClassifier, <<>>,
                                                       model_file, request)} :
                csv_result = [status |-> first.status, ml_result |-> first.ml_result,
                              result |-> first.result]

\* a call answered by a pipeline that an earlier part of the run trained
\* lazily
AnsweredAfterLazyTraining ==
    /\ csv_result.status = "returned"
    /\ csv_result.result.method = "ml_classifier"
    /\ model_file.keys = {"patterns"}
    /\ csv_classifier.ml_classifier[1].is_trained
    /\ rule_result # NoResult

(***************************************************************************)
(* Properties of concurrent classify calls.                                *)
(***************************************************************************)
\* C8: no thread about to predict finds is_trained set while self.pipeline
\* is an object whose fit has not ended, and every call that has ended
\* returned what a sequential call returns.
PredictsOnlyFitted ==
    \A t \in Threads :
        /\ (pc[t] \in {"predict", "predict_proba"} /\ Shared.is_trained) =>
                heap[Shared.pipeline].state = "fitted"
        /\ pc[t] = "done" =>
                /\ local[t].status = "returned"
                /\ local[t].result =
                       MLClassifier_classify(oracle, MLClassifier(Shared.patterns), <<>>,
                                             request).result

\* C9: among concurrent first calls at most one execution of train() is
\* begun.
TrainsAtMostOnce == trainings <= 1

(***************************************************************************)
(* Properties of single requests.                                          *)
(***************************************************************************)
\* C11: "create a new product" resolves to product.create with confidence
\* at least 0.9 and fills no slot: the slot list and the arguments are
\* empty.
CreateNewProductFillsNoSlot ==
    (request = Words(<<"create", "a", "new", "product">>) /\ rule_result # NoResult) =>
        /\ rule_result.tool_name = "product.create"
        /\ rule_result.confidence >= 90 * 1000
        /\ rule_result.slots = <<>>
        /\ rule_result.tool_args = EmptyArgs

\* C12: for every text "add <name>, with <description>, price $<p>" the
\* rule-based classifier resolves product.create with the title-cased name,
\* the price <p> as a number (in cents here) and a description that holds
\* <description> and nothing of the price text.
AddFormFillsSlots ==
    \A parts \in AddParts :
        (/\ request = AddForm(parts.name, parts.description, parts.price)
         /\ rule_result # NoResult) =>
            LET args == rule_result.tool_args
                cents == 100 * DigitsToInt(parts.price.d)
                         + (IF Len(parts.price.f) = 1 THEN 10 * parts.price.f[1]
                            ELSE DigitsToInt(parts.price.f))
            IN  /\ rule_result.tool_name = "product.create"
                /\ DOMAIN args = {"name", "price", "description"}
                /\ args["name"] = StrVal(title(parts.name))
                /\ args["price"] = FloatVal(cents)
                /\ args["description"].ty = "str"
                /\ \E i \in 1..Len(args["description"].s) :
                        SubSeq(args["description"].s, i, i + Len(parts.description) - 1)
                            = lower(parts.description)
                /\ \A i \in 1..Len(args["description"].s) :
                        /\ IsWord(args["description"].s[i])
                        /\ args["description"].s[i].w # "price"

DefaultOnlyWithoutPattern ==
    (/\ csv_result.status = "returned"
     /\ csv_classifier.ml_classifier[1].is_trained
     /\ csv_classifier.ml_classifier[1].pipeline # 0) =>
        \E predicted_tool \in {predict(oracle, heap[csv_classifier.ml_classifier[1].pipeline],
                                       request)} :
            IF ToolNamed(csv_classifier.ml_classifier[1].patterns, predicted_tool)
            THEN /\ csv_result.ml_result.method = "ml_classifier"
                 /\ csv_result.ml_result.tool_name = predicted_tool
            ELSE csv_result.ml_result = _default_result(request)

\* C15: when the result is built from a pattern of one of the five tools,
\* the pattern's argument template seeds the final arguments and the dynamic
\* extraction only overrides or adds: every template key for which the
\* extraction finds no value is in the final arguments with the template's
\* value.
TemplateSeedsArguments ==
    (/\ csv_result.status = "returned"
     /\ csv_result.ml_result.method = "ml_classifier"
     /\ csv_result.ml_result.tool_name \in Tools) =>
        \A key \in DOMAIN csv_result.ml_result.tool_args :
            (/\ key \notin DOMAIN extract_arguments(request, csv_result.ml_result.tool_name,
                                                    csv_result.ml_result.tool_args)
             /\ ~(/\ key \in {"limit", "recent_only"}
                  /\ csv_result.ml_result.tool_name = "product.list"
                  /\ AnyRecentWord(request))) =>
                /\ key \in DOMAIN csv_result.result.tool_args
                /\ csv_result.result.tool_args[key] = csv_result.ml_result.tool_args[key]

(***************************************************************************)
(* Properties of training and persistence.                                 *)
(***************************************************************************)
\* C16: a failed save and a failed load each give the caller an outcome it
\* can tell apart from success, and save_trained_model does not report a
\* model as saved when the write failed.
PersistenceFailureSignalled ==
    /\ (saved.status = "returned" /\ saved.called /\ ~writable) =>
            /\ saved.raised \/ saved.value # "None"
            /\ \A i \in 1..Len(saved.log) : saved.log[i] # "Trained model saved"
    /\ ~model_file.readable =>
            ModelPersistence_load_model(model_file).keys # {"pipeline", "patterns"}

\* C17: load_patterns_from_csv does not raise, and every well-formed row of
\* every readable file, before or after a malformed row, is in the list it
\* returns.
MalformedRowCostsItself ==
    trained.status # "none" =>
        /\ trained.status = "returned"
        /\ \A f \in 1..Len(data_dir) :
                data_dir[f] # Unreadable =>
                    \A k \in 1..Len(data_dir[f]) :
                        float(data_dir[f][k].confidence).ok =>
                            \E i \in 1..Len(trainer.patterns) :
                                trainer.patterns[i] = QueryPattern(data_dir[f][k])

(***************************************************************************)
(* Properties of the rule-based intent scoring.                            *)
(***************************************************************************)
\* C18: over all rules in table order, a matching rule scores its base
\* confidence, plus 0.05 when its pattern is longer than 20 characters; the
\* result is the intent and score of the first rule that reaches the
\* maximum, product.list with exactly 0.5 when no rule matches, and no
\* matching rule scores 0.5 or less.
RuleScoreIsFirstMaximum ==
    rule_result # NoResult =>
        \E matching \in {{k \in 1..Len(INTENT_PATTERNS) :
                            re_search(INTENT_PATTERNS[k].alts, lower(request)).ok}} :
            LET Score(k) == IF INTENT_PATTERNS[k].plen > 20
                            THEN FloatAdd005(INTENT_PATTERNS[k].base)
                            ELSE INTENT_PATTERNS[k].base
            IN  IF matching = {}
                THEN /\ rule_result.tool_name = "product.list"
                     /\ rule_result.confidence = 50 * 1000
                ELSE /\ \A k \in matching : Score(k) > 50 * 1000
                     /\ \E first \in matching :
                            /\ \A k \in matching : Score(k) <= Score(first)
                            /\ \A k \in matching : k < first => Score(k) < Score(first)
                            /\ rule_result.tool_name = INTENT_PATTERNS[first].intent
                            /\ rule_result.confidence = Score(first)

\* "delete latest products": a delete rule and a later list rule both reach
\* the maximum, and the result is the delete rule's
FirstOfTwoMaximalRules ==
    /\ request = Words(<<"delete", "latest", "products">>)
    /\ rule_result # NoResult
    /\ rule_result.tool_name = "product.delete"
    /\ rule_result.confidence = RuleConfidence(INTENT_PATTERNS[5])
    /\ RuleConfidence(INTENT_PATTERNS[14]) = RuleConfidence(INTENT_PATTERNS[5])
    /\ re_search(INTENT_PATTERNS[14].alts, request).ok

(***************************************************************************)
(* Properties of the result built from a corpus pattern.                   *)
(***************************************************************************)
\* C19: the pattern the result is built from is, among the corpus patterns
\* whose tool is the predicted one, the first in corpus order of those with
\* the greatest word-set Jaccard similarity to the text.
ChosenPatternIsFirstMostSimilar ==
    (/\ csv_result.status = "returned"
     /\ csv_result.ml_result.method = "ml_classifier") =>
        \E patterns \in {csv_classifier.ml_classifier[1].patterns} :
        \E pipe \in {heap[csv_classifier.ml_classifier[1].pipeline]} :
            LET Sim(k) == _calculate_similarity(request, patterns[k].query_pattern)
                AtMost(a, b) == a.num * b.den <= b.num * a.den
                cands == {k \in 1..Len(patterns) :
                            patterns[k].tool_name = predict(oracle, pipe, request)}
            IN  \E first \in cands :
                    /\ \A k \in cands : AtMost(Sim(k), Sim(first))
                    /\ \A k \in cands : k < first => ~AtMost(Sim(first), Sim(k))
                    /\ csv_result.ml_result.tool_name = patterns[first].tool_name
                    /\ csv_result.ml_result.tool_args = literal_eval(patterns[first].tool_args)
                    /\ csv_result.ml_result.intent = patterns[first].intent
                    /\ \E quarters \in 0..4 :
                            csv_result.ml_result.confidence
                                = (quarters * patterns[first].confidence) \div 4

\* "search products" is as similar to "show latest products" as to "list
\* all products"; the corpus holds them in this order and the result is
\* built from the first
FirstOfTwoEquallySimilar ==
    /\ request = Words(<<"search", "products">>)
    /\ csv_result.status = "returned"
    /\ csv_result.ml_result.method = "ml_classifier"
    /\ Len(csv_classifier.ml_classifier[1].patterns) = 2
    /\ csv_classifier.ml_classifier[1].patterns[1].query_pattern
           = Words(<<"show", "latest", "products">>)
    /\ csv_classifier.ml_classifier[1].patterns[2].query_pattern
           = Words(<<"list", "all", "products">>)
    /\ csv_result.ml_result.tool_args = Put(EmptyArgs, "limit", IntVal(5))

\* C20: a result built from a pattern has as confidence the highest class
\* probability times the pattern's base confidence and the method
\* "ml_classifier"; the dynamic extraction replaces the arguments only:
\* tool_name, confidence, method, query_type, entity, intent and description
\* are returned as MLClassifier.classify gave them.
ConfidenceIsProbabilityTimesBase ==
    csv_result.status = "returned" =>
        /\ \A field \in {"tool_name", "confidence", "method", "query_type", "entity",
                         "intent", "description"} :
                csv_result.result[field] = csv_result.ml_result[field]
        /\ csv_result.ml_result.method # "default" =>
                \E pipe \in {heap[csv_classifier.ml_classifier[1].pipeline]} :
                \E k \in 1..Len(csv_classifier.ml_classifier[1].patterns) :
                \E pattern \in {csv_classifier.ml_classifier[1].patterns[k]} :
                    /\ pattern.tool_name = predict(oracle, pipe, request)
                    /\ csv_result.ml_result.method = "ml_classifier"
                    /\ 4 * csv_result.ml_result.confidence
                           = max_proba(oracle, pipe, request) * pattern.confidence
                    /\ csv_result.ml_result.tool_name = pattern.tool_name
                    /\ csv_result.ml_result.query_type = pattern.query_type
                    /\ csv_result.ml_result.entity = pattern.entity
                    /\ csv_result.ml_result.intent = pattern.intent
                    /\ csv_result.ml_result.description = pattern.description

\* a class probability of 0.75 and a pattern of base confidence 0.9 have
\* given 0.675, and the extraction has replaced the template's arguments
ScaledConfidenceNewArguments ==
    /\ csv_result.status = "returned"
    /\ csv_result.ml_result.method = "ml_classifier"
    /\ max_proba(oracle, heap[csv_classifier.ml_classifier[1].pipeline], request) = 3
    /\ csv_result.result.confidence = 67500
    /\ csv_result.ml_result.tool_args = Put(EmptyArgs, "limit", IntVal(5))
    /\ csv_result.result.tool_args # csv_result.ml_result.tool_args

(***************************************************************************)
(* Properties of slot extraction.                                          *)
(***************************************************************************)
\* C21: extract_slot returns the slot of the first rule, in list order,
\* that matches the lower-cased text and whose group 1 the slot's processor
\* turns into a value, with that rule's base confidence and the span of the
\* group; it returns no slot when no rule qualifies or the slot name is
\* unknown, and the rule-based result holds these slots.
ExtractSlotFirstQualifyingRule ==
    rule_result # NoResult =>
        /\ extract_slot("category", request, lower(request)) = <<>>
        /\ \A name \in DOMAIN SLOT_PATTERNS :
            \E found \in {extract_slot(name, request, lower(request))} :
                LET Group(k) == Capture(SLOT_PATTERNS[name][k], lower(request))
                    Value(k) ==
                        VALUE_PROCESSORS(name,
                            IF Group(k).frac THEN <<N(lower(request)[Group(k).from].f)>>
                            ELSE SubSeq(lower(request), Group(k).from, Group(k).to))
                    qualifying == {k \in 1..Len(SLOT_PATTERNS[name]) :
                                     Group(k).ok /\ Value(k) # NoneVal}
                IN  /\ qualifying = {} => found = <<>>
                    /\ \A k \in qualifying :
                        (\A j \in qualifying : k <= j) =>
                            /\ Len(found) = 1
                            /\ found[1].name = name
                            /\ found[1].value = Value(k)
                            /\ found[1].confidence = SLOT_PATTERNS[name][k].conf
                            /\ found[1].start_pos = GroupStart(name, lower(request), Group(k))
                            /\ found[1].end_pos = GroupEnd(name, lower(request), Group(k))
                    /\ \A i \in 1..Len(rule_result.slots) :
                        (rule_result.slots[i].name = name
                            /\ rule_result.slots[i].confidence # 70 * 1000) =>
                            /\ found # <<>>
                            /\ rule_result.slots[i].value = found[1].value
                            /\ rule_result.slots[i].confidence = found[1].confidence

\* "... price $49.99": the first price rule (0.95) and the second (0.9)
\* both match, and the slot is the first rule's
FirstOfTwoPriceRules ==
    /\ rule_result # NoResult
    /\ Capture(SLOT_PATTERNS["price"][1], lower(request)).ok
    /\ Capture(SLOT_PATTERNS["price"][2], lower(request)).ok
    /\ \E i \in 1..Len(rule_result.slots) :
        /\ rule_result.slots[i].name = "price"
        /\ rule_result.slots[i].confidence = SLOT_PATTERNS["price"][1].conf
        /\ rule_result.slots[i].value = FloatVal(4999)

\* C22: in every result of the rule-based classifier the slot names are
\* among those of the resolved intent (create: name, price, description;
\* update: id, name, price, description; delete and get: id; list: none),
\* no slot name occurs twice, and the keys of tool_args are the slot names,
\* with limit and recent_only added for product.list only.
SlotsAllowedForIntent ==
    rule_result # NoResult =>
        \E names \in {{rule_result.slots[i].name : i \in 1..Len(rule_result.slots)}} :
            /\ names \subseteq
                 (CASE rule_result.tool_name = "product.create" ->
                            {"name", "price", "description"}
                    [] rule_result.tool_name = "product.update" ->
                            {"id", "name", "price", "description"}
                    [] rule_result.tool_name = "product.delete" -> {"id"}
                    [] rule_result.tool_name = "product.get" -> {"id"}
                    [] OTHER -> {})
            /\ \A i, j \in 1..Len(rule_result.slots) :
                    rule_result.slots[i].name = rule_result.slots[j].name => i = j
            /\ names \subseteq DOMAIN rule_result.tool_args
            /\ (DOMAIN rule_result.tool_args) \ names \in {{}, {"limit", "recent_only"}}
            /\ (DOMAIN rule_result.tool_args) # names =>
                    rule_result.tool_name = "product.list"
            /\ \A i \in 1..Len(rule_result.slots) :
                    rule_result.tool_args[rule_result.slots[i].name]
                        = rule_result.slots[i].value

\* "update product 5 price 20 dollars" has given an update with the two
\* slots id and price
UpdateWithIdAndPrice ==
    /\ rule_result # NoResult
    /\ rule_result.tool_name = "product.update"
    /\ Len(rule_result.slots) = 2
    /\ DOMAIN rule_result.tool_args = {"id", "price"}
    /\ rule_result.tool_args["id"] = IntVal(5)

\* C23: a description of the fallback extractor (confidence 0.7) is emitted
\* only for product.create with no other description slot, is longer than 2
\* characters, and holds neither the extracted name nor the extracted price
\* as the text writes it, whole-number prices included.
FallbackDescriptionWithoutSlots ==
    rule_result # NoResult =>
        \A i \in 1..Len(rule_result.slots) :
            (rule_result.slots[i].name = "description"
                /\ rule_result.slots[i].confidence = 70 * 1000) =>
                \E description \in {rule_result.slots[i].value.s} :
                    /\ rule_result.tool_name = "product.create"
                    /\ \A j \in 1..Len(rule_result.slots) :
                            rule_result.slots[j].name = "description" => j = i
                    /\ TextLen(description) > 2
                    /\ \A j \in 1..Len(rule_result.slots) :
                        /\ rule_result.slots[j].name = "price" =>
                            \A k \in 1..Len(description) :
                                \/ description[k].d = <<>>
                                \/ process_price(<<description[k]>>)
                                       # rule_result.slots[j].value
                        /\ rule_result.slots[j].name = "name" =>
                            \A k \in 1..Len(description) :
                                \A m \in k..Len(description) :
                                    SubSeq(description, k, m)
                                        # lower(rule_result.slots[j].value.s)

(***************************************************************************)
(* Properties of the arguments of the two classifiers.                     *)
(***************************************************************************)
\* C24: when the resolved tool is product.list and the text holds "starting
\* with", "beginning with" or "that start with" and a letter, the final
\* arguments hold name_prefix, that letter in upper case, in the result of
\* either classifier.
NamePrefixFromEitherClassifier ==
    \A i \in 1..Len(request) :
        (/\ i + 2 <= Len(request)
         /\ \/ lower(request)[i].w \in {"starting", "beginning"}
            \/ (i > 1 /\ lower(request)[i - 1].w = "that" /\ lower(request)[i].w = "start")
         /\ lower(request)[i + 1].w = "with"
         /\ IsWord(request[i + 2])
         /\ \A k \in 1..(i - 1) : lower(request)[k].w \notin {"starting", "beginning", "start"}) =>
            /\ (rule_result # NoResult /\ rule_result.tool_name = "product.list") =>
                    /\ "name_prefix" \in DOMAIN rule_result.tool_args
                    /\ rule_result.tool_args["name_prefix"]
                           = StrVal(<<Initial(lower(request)[i + 2])>>)
            /\ (csv_result.status = "returned"
                    /\ csv_result.result.tool_name = "product.list") =>
                    /\ "name_prefix" \in DOMAIN csv_result.result.tool_args
                    /\ csv_result.result.tool_args["name_prefix"]
                           = StrVal(<<Initial(lower(request)[i + 2])>>)

\* C25: for every text and each of the tools create, update, delete and
\* get, the corpus path's extract_arguments and the rule path's slot
\* extraction give the same id, price and name arguments, an id or price of
\* 0 included; so do the two results when both classifiers resolve the same
\* one of these tools.
SameSlotsFromBothExtractors ==
    (rule_result # NoResult /\ csv_result.status = "returned") =>
        \A key \in {"id", "price", "name"} :
            /\ \A tool \in Tools \ {"product.list"} :
                \E slots \in {SlotsToArgs(_extract_slots(request, lower(request), tool), 1,
                                          EmptyArgs)} :
                \E args \in {extract_arguments(request, tool, EmptyArgs)} :
                    /\ key \in DOMAIN slots <=> key \in DOMAIN args
                    /\ key \in DOMAIN slots => slots[key] = args[key]
            /\ (rule_result.tool_name = csv_result.result.tool_name
                    /\ rule_result.tool_name \in Tools \ {"product.list"}) =>
                    /\ key \in DOMAIN rule_result.tool_args
                           <=> key \in DOMAIN csv_result.result.tool_args
                    /\ key \in DOMAIN rule_result.tool_args =>
                            rule_result.tool_args[key] = csv_result.result.tool_args[key]

(***************************************************************************)
(* Properties of the chat application.                                     *)
(***************************************************************************)
\* C26: across the requests of one process, however the classifier instance
\* is obtained, load_model executes at most once and a pipeline is fitted at
\* most once.
LoadsAndTrainsAtMostOnce ==
    /\ executed.loads <= 1
    /\ executed.fits <= 1

\* C27: start-up always reaches its yield, also when load_model raises;
\* app.state.csv_classifier is set exactly when the start-up load succeeded,
\* and a classifier that get_csv_classifier returns to the /v3 handler has
\* is_loaded true (otherwise the dependency raises).
StartupYieldsAndHandsLoaded ==
    /\ app.status \in {"none", "yielded"}
    /\ app.status = "yielded" =>
        /\ app.state <=> ~app.load_raised
        /\ app.state => app.csv_classifier[1].is_loaded
    /\ handed.status = "returned" => handed.is_loaded
    /\ handed.status = "raised" => ~app.state /\ csv_result.status = "raised"

\* start-up met no loadable model file, and a later request was handed a
\* new classifier that loaded the file written meanwhile
FailedStartupThenLoadedFallback ==
    /\ app.status = "yielded"
    /\ app.load_raised
    /\ ~app.state
    /\ handed = [status |-> "returned", source |-> "new", is_loaded |-> TRUE]

(***************************************************************************)
(* Properties of the product store.                                        *)
(***************************************************************************)
\* C28: delete_product of an id not in the store returns False, issues no
\* delete and no commit and leaves the store as it was; of an id in the
\* store it deletes exactly that row, commits once and returns True; and a
\* get_product of an id deleted earlier returns None, whatever happened in
\* between.
DeleteRemovesExactlyThatRow ==
    /\ crud_call.op = "delete_product" =>
        IF crud_call.product_id \notin DOMAIN crud_call.before
        THEN /\ crud_call.value = <<FALSE>>
             /\ crud_call.deletes = 0
             /\ crud_call.commits = 0
             /\ db.rows = crud_call.before
        ELSE /\ crud_call.value = <<TRUE>>
             /\ crud_call.deletes = 1
             /\ crud_call.commits = 1
             /\ DOMAIN db.rows = (DOMAIN crud_call.before) \ {crud_call.product_id}
             /\ \A other \in DOMAIN db.rows : db.rows[other] = crud_call.before[other]
    /\ crud_call.op = "get_product" /\ crud_call.product_id \in db.deleted =>
        crud_call.value = <<>>

\* a product was deleted, another created afterwards, and the deleted id
\* is looked up
GetAfterDeleteAndCreate ==
    /\ crud_call.op = "get_product"
    /\ crud_call.product_id \in db.deleted
    /\ DOMAIN db.rows # {}
    /\ \A other \in DOMAIN db.rows : other > crud_call.product_id

\* C29: update_product of an id not in the store returns None, commits
\* nothing and changes nothing; of an existing id it overwrites exactly the
\* fields whose new value is not None, keeps the other fields and the id,
\* and leaves every other product as it was.
UpdateOverwritesOnlyGiven ==
    crud_call.op = "update_product" =>
        IF crud_call.product_id \notin DOMAIN crud_call.before
        THEN /\ crud_call.value = <<>>
             /\ crud_call.commits = 0
             /\ db.rows = crud_call.before
        ELSE /\ DOMAIN db.rows = DOMAIN crud_call.before
             /\ \A other \in (DOMAIN db.rows) \ {crud_call.product_id} :
                    db.rows[other] = crud_call.before[other]
             /\ db.rows[crud_call.product_id].id = crud_call.product_id
             /\ \A field \in {"name", "price", "description"} :
                    db.rows[crud_call.product_id][field] =
                        IF crud_call.data[field] # <<>> THEN crud_call.data[field]
                        ELSE crud_call.before[crud_call.product_id][field]
             /\ crud_call.value = <<db.rows[crud_call.product_id]>>
             /\ crud_call.commits = 1

\* one of two products gets a new name while its description is omitted
UpdateNameKeepsDescription ==
    /\ crud_call.op = "update_product"
    /\ crud_call.product_id \in DOMAIN crud_call.before
    /\ Cardinality(DOMAIN crud_call.before) = 2
    /\ crud_call.data.name = <<"b">>
    /\ crud_call.data.description = <<>>
    /\ crud_call.before[crud_call.product_id].name = <<"a">>
    /\ crud_call.before[crud_call.product_id].description = <<"d">>
    /\ db.rows[crud_call.product_id].description = <<"d">>

(***************************************************************************)
(* Requests for one product by id.                                         *)
(***************************************************************************)
\* C30: for every verb of the get rules and every n, the rule-based
\* classifier resolves "<verb> n" and "<verb> product n" to product.get
\* with arguments.id = n.
GetByIdKeepsToolAndId ==
    (rule_result # NoResult /\ request \in GetRequests) =>
        /\ rule_result.tool_name = "product.get"
        /\ "id" \in DOMAIN rule_result.tool_args
        /\ rule_result.tool_args["id"] = IntVal(DigitsToInt(request[Len(request)].d))

====
